---------------------------- MODULE Spec2Model ----------------------------
(***************************************************************************)
(* A model of extract_gre_questions.py: the GREQuestionExtractor class     *)
(* (fetch_page, the link harvester of parse_main_page_from_url and         *)
(* _extract_questions_from_div) and the sequential pipeline of main().     *)
(*                                                                         *)
(* Strings the code inspects are modelled by the features the code reads   *)
(* from them: a text by its lower-cased prefix, whether it holds a '-',    *)
(* its length and the subsection keys it contains; a URL by the five       *)
(* parts urlsplit gives (scheme, netloc, path, query, fragment).           *)
(***************************************************************************)
EXTENDS Integers, Sequences, FiniteSets, TLC

None == "None"

(***************************************************************************)
(* Program constants.                                                      *)
(***************************************************************************)
Retries == 3
BackoffBase == 2
InterRequestDelay == 1
ShortMarkerLen == 5
MaxTopicTextLen == 100

(***************************************************************************)
(* Bounds of the model.                                                    *)
(***************************************************************************)
MaxItems == 2

RECURSIVE Pow(_, _)
Pow(b, e) == IF e = 0 THEN 1 ELSE b * Pow(b, e - 1)

(***************************************************************************)
(* URLs.  base_url is the forum index page main() passes to the            *)
(* constructor; it carries a fragment.                                     *)
(***************************************************************************)
Url(scheme, netloc, path, query, fragment) ==
    [scheme |-> scheme, netloc |-> netloc, path |-> path, query |-> query,
     fragment |-> fragment]

base_url == Url("https", "gre.myprepclub.com", "/forum/the-5-lb-book-of-gre-practice-problems-34935.html", "", "p119768")

\* _normalize_url: urlsplit, then urlunsplit with the fragment emptied.
NormalizeUrl(url) == [url EXCEPT !.fragment = ""]

\* str.startswith('http') on the href as written: true of an http(s) URL and
\* of a relative reference whose first path segment begins with "http".
HttpPrefixedPaths == {"http-error-codes-123.html"}

StartsWithHttp(href) ==
    \/ href.scheme \in {"http", "https"}
    \/ href.scheme = "" /\ href.netloc = "" /\ href.path \in HttpPrefixedPaths

\* urljoin(base_url, href) for the reference forms of the model: a reference
\* with a scheme is returned as is; a network-path reference takes the base's
\* scheme; an absolute path takes the base's scheme and netloc; a relative
\* path replaces the last segment of the base's path; an empty path keeps the
\* base's path (and the base's query when the reference has none).
MergePath(basePath, path) ==
    IF path = "q1-101.html" THEN "/forum/q1-101.html"
    ELSE IF path = "http-error-codes-123.html" THEN "/forum/http-error-codes-123.html"
    ELSE IF path = "search.php" THEN "/forum/search.php"
    ELSE path

UrlJoin(base, href) ==
    IF href.scheme # "" THEN href
    ELSE IF href.netloc # "" THEN [href EXCEPT !.scheme = base.scheme]
    ELSE IF href.path = "" THEN
        Url(base.scheme, base.netloc, base.path,
            IF href.query # "" THEN href.query ELSE base.query, href.fragment)
    ELSE Url(base.scheme, base.netloc, MergePath(base.path, href.path),
             href.query, href.fragment)

\* The href of a link as the harvester stores it (lines 440-443, 488-491).
ResolveHref(href) ==
    NormalizeUrl(IF ~StartsWithHttp(href) THEN UrlJoin(base_url, href) ELSE href)

IsAbsolute(url) == url.scheme # ""

\* The denylist of lines 445-450 and 493-498, and the terms href.lower()
\* contains.
SkipTerms ==
    {"gre-prep-whatsapp", "gre-premium-quant-question-banks", "how-to-achieve",
     "gre-hard-and-tricky-verbal", "gre-skill-builder-project",
     "the-best-gre-books", "gre-prep-club", "forum/search", "forum/viewforum"}

TermsIn(url) ==
    IF url.path = "/forum/search.php" THEN {"forum/search"}
    ELSE IF url.path = "/forum/gre-prep-club-rules-1.html" THEN {"gre-prep-club"}
    ELSE {}

IsSkippedShortList(url) ==
    \E skip_term \in SkipTerms \ {"forum/search", "forum/viewforum"} :
        skip_term \in TermsIn(url)

IsSkipped(url) == \E skip_term \in SkipTerms : skip_term \in TermsIn(url)

(***************************************************************************)
(* Texts.  get_text(strip=True) of an element, by what the two detectors   *)
(* read: s is the text, starts its lower-cased marker prefix ("" when it   *)
(* begins with none of qcq, ps, mac, ne, di, tc, se, rc), dash whether it  *)
(* contains '-', len its length, keys the subsection_mapping keys whose    *)
(* lower-cased form it contains.                                           *)
(***************************************************************************)
Text(s, starts, dash, len, keys) ==
    [s |-> s, starts |-> starts, dash |-> dash, len |-> len, keys |-> keys]

EmptyText == Text("", "", FALSE, 0, {})

\* The text of an element with several text children: get_text concatenates
\* the stripped strings of the subtree.
ConcatText(t1, t2) ==
    IF t1.len = 0 THEN t2
    ELSE IF t2.len = 0 THEN t1
    ELSE Text(t1.s, t1.starts, t1.dash \/ t2.dash, t1.len + t2.len,
              t1.keys \cup t2.keys)

\* _detect_question_type_marker (lines 576-600).  The equality tests of the
\* code (text_lower == 'qcq -', 'mac -') are cases of its startswith tests.
DetectQuestionTypeMarker(text) ==
    IF text.starts = "qcq" THEN "Quantitative Comparison (QCQ)"
    ELSE IF text.starts = "ps" /\ (text.dash \/ text.len <= ShortMarkerLen)
        THEN "Problem Solving (PS)"
    ELSE IF text.starts = "mac" THEN "Multiple Answer Choices (MAC)"
    ELSE IF text.starts = "ne" /\ (text.dash \/ text.len <= ShortMarkerLen)
        THEN "Numeric Entry (NE)"
    ELSE IF text.starts = "di" /\ (text.dash \/ text.len <= ShortMarkerLen)
        THEN "Data Interpretation (DI)"
    ELSE IF text.starts = "tc" /\ (text.dash \/ text.len <= ShortMarkerLen)
        THEN "Text Completion (TC)"
    ELSE IF text.starts = "se" /\ (text.dash \/ text.len <= ShortMarkerLen)
        THEN "Sentence Equivalence (SE)"
    ELSE IF text.starts = "rc" /\ (text.dash \/ text.len <= ShortMarkerLen)
        THEN "Reading Comprehension (RC)"
    ELSE None

\* subsection_mapping (lines 42-49), in the order of its keys.
SubsectionKeys ==
    <<"Graphs & Illustrations", "Overlapping Sets", "Sequence and Series",
      "SIMPLE INTEREST AND COMPOUND INTEREST", "Rate and Time", "Statistic">>

subsection_mapping(key) ==
    CASE key = "Graphs & Illustrations" -> "Data Interpretation"
      [] key = "Overlapping Sets" -> "Probability, Combinatorics, and Overlapping Sets"
      [] key = "Sequence and Series" -> "Functions, Formulas, and Sequences"
      [] key = "SIMPLE INTEREST AND COMPOUND INTEREST" -> "Percents"
      [] key = "Rate and Time" -> "Rates and Work"
      [] key = "Statistic" -> "Averages, Weighted Averages, Median, and Mode"

\* _detect_topic_subsection (lines 635-644): the first key, in the mapping's
\* order, that the text contains, for a text of fewer than 100 characters.
DetectTopicSubsection(text) ==
    LET hits == {i \in 1..Len(SubsectionKeys) :
                    SubsectionKeys[i] \in text.keys /\ text.len < MaxTopicTextLen}
    IN  IF hits = {} THEN None
        ELSE SubsectionKeys[CHOOSE i \in hits : \A j \in hits : i <= j]

(***************************************************************************)
(* The running context of a scan: current_question_type and                *)
(* current_topic_subsection (lines 399-400, 465-466).                      *)
(***************************************************************************)
NoContext == [question_type |-> None, topic_subsection |-> None]

\* Lines 405-419 and 470-482: what the text of one element does to the
\* context.  A question-type marker clears the topic subsection; a topic
\* marker sets it, mapped through subsection_mapping.
UpdateContextForgetful(cur, text) ==
    LET question_type == DetectQuestionTypeMarker(text)
        topic_subsection == DetectTopicSubsection(text)
    IN  [question_type |-> question_type,
         topic_subsection |->
             IF topic_subsection # None THEN subsection_mapping(topic_subsection)
             ELSE None]

UpdateContext(cur, text) ==
    LET question_type == DetectQuestionTypeMarker(text)
        topic_subsection == DetectTopicSubsection(text)
        c1 == IF question_type # None
              THEN [question_type |-> question_type, topic_subsection |-> None]
              ELSE cur
    IN  IF topic_subsection # None
        THEN [c1 EXCEPT !.topic_subsection = subsection_mapping(topic_subsection)]
        ELSE c1

\* 'word' in question_type, for the words lines 531-536 look for.
InQuestionType(word, question_type) ==
    \/ word = "Text Completion" /\ question_type = "Text Completion (TC)"
    \/ word = "Sentence Equivalence" /\ question_type = "Sentence Equivalence (SE)"
    \/ word = "Reading Comprehension" /\ question_type = "Reading Comprehension (RC)"

IsDiagnosticTest(main_category) ==
    main_category \in {"Math Diagnostic Test", "Verbal Diagnostic Test"}

Or(a, b) == IF a # None THEN a ELSE b

\* _determine_final_subcategory (lines 520-574); None is Python's None.  The
\* callers never pass detected_question_type_from_content, so it is None.
DetermineFinalSubcategory(current_topic_subsection, current_question_type, section_subcategory, main_category, is_math_diagnostic, is_verbal_diagnostic) ==
    LET detected_question_type_from_content == None
        filtered ==
            IF is_math_diagnostic
            THEN current_question_type # None
                 /\ InQuestionType("Verbal", current_question_type)
            ELSE IF is_verbal_diagnostic
            THEN current_question_type # None
                 /\ ~InQuestionType("Verbal", current_question_type)
                 /\ ~InQuestionType("Text Completion", current_question_type)
                 /\ ~InQuestionType("Sentence Equivalence", current_question_type)
                 /\ ~InQuestionType("Reading Comprehension", current_question_type)
            ELSE FALSE
    IN  IF filtered THEN None
        ELSE IF IsDiagnosticTest(main_category)
        THEN Or(detected_question_type_from_content, current_question_type)
        ELSE IF main_category = "Quantitative Section"
        THEN Or(Or(current_topic_subsection, section_subcategory),
                Or(detected_question_type_from_content, current_question_type))
        ELSE Or(current_topic_subsection,
                IF main_category = "Verbal Section"
                THEN Or(section_subcategory, current_question_type)
                ELSE Or(current_question_type, section_subcategory))

(***************************************************************************)
(* Elements of an 'item text' div, in document order (item_div.descendants)*)
(* name is the tag name, text its get_text(strip=True), postlink whether   *)
(* its class list holds 'postlink-local', href its href attribute          *)
(* (EmptyHref when it is "" or absent: both are skipped by `if href`),     *)
(* links what find_all('a', class_='postlink-local', href=True) gives in   *)
(* its subtree.                                                            *)
(***************************************************************************)
EmptyHref == Url("", "", "", "", "")

Element(name, text, postlink, href, links) ==
    [name |-> name, text |-> text, postlink |-> postlink, href |-> href,
     links |-> links]

Marker(text) == Element("b", text, FALSE, EmptyHref, <<>>)

Anchor(text, href) == Element("a", text, TRUE, href, <<>>)

RECURSIVE ConcatTexts(_)
ConcatTexts(elements) ==
    IF elements = <<>> THEN EmptyText
    ELSE ConcatText(Head(elements).text, ConcatTexts(Tail(elements)))

IsPostlink(element) == element.name = "a" /\ element.postlink

\* An <ol> and the elements of its subtree, which follow it in document order.
Ol(children) ==
    <<Element("ol", ConcatTexts(children), FALSE, EmptyHref,
              SelectSeq(children, IsPostlink))>> \o children

RECURSIVE Flatten(_)
Flatten(items) ==
    IF items = <<>> THEN <<>> ELSE Head(items) \o Flatten(Tail(items))

(***************************************************************************)
(* questions_by_category: a dict of dicts of lists, iterated in insertion  *)
(* order.  It is modelled by the sequence of its (main category,           *)
(* subcategory) buckets in the order the nested iteration of main() meets  *)
(* them.                                                                   *)
(***************************************************************************)
LinkRecord(url, text, question_type, section) ==
    [url |-> url, text |-> text, question_type |-> question_type,
     section |-> section]

BucketIndex(qbc, main_category, subcategory) ==
    LET hits == {i \in 1..Len(qbc) :
                    qbc[i].main = main_category /\ qbc[i].sub = subcategory}
    IN  IF hits = {} THEN 0 ELSE CHOOSE i \in hits : TRUE

\* Lines 429-432 and 507-510: create the bucket when it is missing.  A new
\* subcategory of a main category already present comes after that main
\* category's last subcategory.
EnsureBucket(qbc, main_category, subcategory) ==
    IF BucketIndex(qbc, main_category, subcategory) # 0 THEN qbc
    ELSE LET same == {i \in 1..Len(qbc) : qbc[i].main = main_category}
             at == IF same = {} THEN Len(qbc)
                   ELSE CHOOSE i \in same : \A j \in same : j <= i
             new == [main |-> main_category, sub |-> subcategory, links |-> <<>>]
         IN  SubSeq(qbc, 1, at) \o <<new>> \o SubSeq(qbc, at + 1, Len(qbc))

HasUrl(links, url) == \E i \in 1..Len(links) : links[i].url = url

\* Lines 453-459 and 512-518: append unless the bucket holds the URL.
AppendAlways(qbc, main_category, subcategory, record) ==
    LET b == BucketIndex(qbc, main_category, subcategory)
    IN  [qbc EXCEPT ![b].links = Append(@, record)]

AppendUnlessPresent(qbc, main_category, subcategory, record) ==
    LET b == BucketIndex(qbc, main_category, subcategory)
    IN  IF HasUrl(qbc[b].links, record.url) THEN qbc
        ELSE [qbc EXCEPT ![b].links = Append(@, record)]

StrOr(a, b) == IF a # None /\ a # "" THEN a ELSE b

\* The text field of a Link Record: link_text or href.
LinkText(text) == IF text.len > 0 THEN text.s ELSE "(href)"

\* Lines 436-459: the links of one <ol>, in order.
RECURSIVE HarvestOlLinks(_, _, _, _, _)
HarvestOlLinks(qbc, links, final_subcategory, cur, ctx) ==
    IF links = <<>> THEN qbc
    ELSE
        LET link == Head(links)
            href == ResolveHref(link.href)
            next ==
                IF link.href = EmptyHref \/ IsSkipped(href) THEN qbc
                ELSE AppendUnlessPresent(qbc, ctx.main_category, final_subcategory,
                        LinkRecord(href, LinkText(link.text),
                                   StrOr(cur.question_type, ""),
                                   StrOr(ctx.section_subcategory, "")))
        IN  HarvestOlLinks(next, Tail(links), final_subcategory, cur, ctx)

FinalSubcategoryOrDefault(cur, ctx) ==
    Or(DetermineFinalSubcategory(cur.topic_subsection, cur.question_type,
                                 ctx.section_subcategory, ctx.main_category,
                                 ctx.is_math_diagnostic, ctx.is_verbal_diagnostic),
       "Uncategorized")

\* The call of lines 423-426 and 501-504.
FinalSubcategory(cur, ctx) ==
    DetermineFinalSubcategory(cur.topic_subsection, cur.question_type,
                              ctx.section_subcategory, ctx.main_category,
                              ctx.is_math_diagnostic, ctx.is_verbal_diagnostic)

\* Lines 421-462: the first loop's work on one element, with the context as
\* updated by that element's own text.
OlPassHarvest(qbc, element, cur, ctx) ==
    IF element.name = "ol" /\ FinalSubcategory(cur, ctx) # None
    THEN HarvestOlLinks(
             EnsureBucket(qbc, ctx.main_category, FinalSubcategory(cur, ctx)),
             element.links, FinalSubcategory(cur, ctx), cur, ctx)
    ELSE qbc

\* Lines 484-518: the second loop's work on one element.
DirectPassHarvest(qbc, element, cur, ctx) ==
    IF /\ element.name = "a"
       /\ element.postlink
       /\ element.href # EmptyHref
       /\ ~IsSkipped(ResolveHref(element.href))
       /\ FinalSubcategory(cur, ctx) # None
    THEN AppendUnlessPresent(
             EnsureBucket(qbc, ctx.main_category, FinalSubcategory(cur, ctx)),
             ctx.main_category, FinalSubcategory(cur, ctx),
             LinkRecord(ResolveHref(element.href), LinkText(element.text),
                        StrOr(cur.question_type, ""),
                        StrOr(ctx.section_subcategory, "")))
    ELSE qbc

\* One iteration of the first loop (lines 403-462) or of the second (lines
\* 468-518): the element's text updates the context, then the element is
\* harvested.  st is [cur, qbc].
ScanStep(pass, st, element, ctx) ==
    LET cur == UpdateContext(st.cur, element.text)
    IN  [cur |-> cur,
         qbc |-> IF pass = "ol" THEN OlPassHarvest(st.qbc, element, cur, ctx)
                 ELSE DirectPassHarvest(st.qbc, element, cur, ctx)]

RECURSIVE ScanPass(_, _, _, _)
ScanPass(pass, st, elements, ctx) ==
    IF elements = <<>> THEN st
    ELSE ScanPass(pass, ScanStep(pass, st, Head(elements), ctx), Tail(elements), ctx)

\* _extract_questions_from_div (lines 396-518): the <ol> pass, then the
\* direct-link pass, each from an empty context.
ExtractQuestionsFromDiv(qbc, elements, ctx) ==
    LET first == ScanPass("ol", [cur |-> NoContext, qbc |-> qbc], elements, ctx)
    IN  ScanPass("direct", [cur |-> NoContext, qbc |-> first.qbc], elements, ctx).qbc

(***************************************************************************)
(* Section classification of a div (lines 237-377).  A div is              *)
(*   span      whether it has a red-styled span,                           *)
(*   span_text the section_mapping keys and the lower-cased diagnostic     *)
(*             phrases the span's text contains,                           *)
(*   text      the phrases the div's lower-cased text contains,            *)
(*   elements  its descendants in document order.                          *)
(***************************************************************************)
SectionKeys ==
    <<"GRE Arithmetic", "GRE Algebra & Word Problems", "GRE Algebra",
      "GRE Geometry", "GRE Data Analysis">>

section_mapping(key) ==
    CASE key = "GRE Arithmetic" -> "Arithmetic"
      [] key = "GRE Algebra & Word Problems" -> "Word Problems"
      [] key = "GRE Algebra" -> "Linear and Quadratic Equations"
      [] key = "GRE Geometry" -> "Triangles"
      [] key = "GRE Data Analysis" -> "Data Interpretation"

Lower(key) ==
    CASE key = "GRE Arithmetic" -> "gre arithmetic"
      [] key = "GRE Algebra & Word Problems" -> "gre algebra & word problems"
      [] key = "GRE Algebra" -> "gre algebra"
      [] key = "GRE Geometry" -> "gre geometry"
      [] key = "GRE Data Analysis" -> "gre data analysis"

\* quant_subsections (lines 261-272), in list order.
quant_subsections ==
    <<"arithmetic", "exponents and roots", "linear and quadratic equations",
      "functions, formulas, and sequences", "inequalities and absolute values",
      "divisibility and primes", "number properties", "fractions and decimals",
      "percents", "ratios", "word problems", "two variables word problems",
      "averages, weighted averages, median, and mode",
      "standard deviation and normal distribution", "data interpretation",
      "triangles", "polygons and rectangular solids", "circles and cylinders",
      "coordinate geometry", "mixed geometry", "rates and work",
      "probability, combinatorics, and overlapping sets", "advanced quant",
      "verbal practice sections", "verbal practice adaptive sections",
      "quant practice sections", "quant practice adaptive sections">>

\* _map_quant_subsection(subsection.title()) (lines 279, 602-633): title()
\* capitalises every word and the mapping gives the folder name, which
\* differs from the title-cased name in its "and"; a second application
\* (line 304) finds no key and returns its argument.
MapQuantSubsection(subsection) ==
    CASE subsection = "arithmetic" -> "Arithmetic"
      [] subsection = "exponents and roots" -> "Exponents and Roots"
      [] subsection = "linear and quadratic equations" -> "Linear and Quadratic Equations"
      [] subsection = "functions, formulas, and sequences" -> "Functions, Formulas, and Sequences"
      [] subsection = "inequalities and absolute values" -> "Inequalities and Absolute Values"
      [] subsection = "divisibility and primes" -> "Divisibility and Primes"
      [] subsection = "number properties" -> "Number Properties"
      [] subsection = "fractions and decimals" -> "Fractions and Decimals"
      [] subsection = "percents" -> "Percents"
      [] subsection = "ratios" -> "Ratios"
      [] subsection = "word problems" -> "Word Problems"
      [] subsection = "two variables word problems" -> "Two Variables Word Problems"
      [] subsection = "averages, weighted averages, median, and mode"
            -> "Averages, Weighted Averages, Median, and Mode"
      [] subsection = "standard deviation and normal distribution"
            -> "Standard Deviation and Normal Distribution"
      [] subsection = "data interpretation" -> "Data Interpretation"
      [] subsection = "triangles" -> "Triangles"
      [] subsection = "polygons and rectangular solids" -> "Polygons and Rectangular Solids"
      [] subsection = "circles and cylinders" -> "Circles and Cylinders"
      [] subsection = "coordinate geometry" -> "Coordinate Geometry"
      [] subsection = "mixed geometry" -> "Mixed Geometry"
      [] subsection = "rates and work" -> "Rates and Work"
      [] subsection = "probability, combinatorics, and overlapping sets"
            -> "Probability, Combinatorics, and Overlapping Sets"
      [] subsection = "advanced quant" -> "Advanced Quant"
      [] subsection = "verbal practice sections" -> "Verbal Practice Sections"
      [] subsection = "verbal practice adaptive sections" -> "Verbal Practice Adaptive Sections"
      [] subsection = "quant practice sections" -> "Quant Practice Sections"
      [] subsection = "quant practice adaptive sections" -> "Quant Practice Adaptive Sections"

FirstIn(keys, found) ==
    LET hits == {i \in 1..Len(keys) : keys[i] \in found}
    IN  IF hits = {} THEN None ELSE keys[CHOOSE i \in hits : \A j \in hits : i <= j]

Combined == "Math Diagnostic Test & Verbal Diagnostic Test"

\* Lines 243-254: the header the red span gives.
SpanHeader(div) ==
    IF ~div.span THEN None
    ELSE IF "math diagnostic test" \in div.span_text
            /\ "verbal diagnostic test" \in div.span_text THEN Combined
    ELSE FirstIn(SectionKeys, div.span_text)

\* Lines 275-280.
DetectedQuantSubsection(div) ==
    IF FirstIn(quant_subsections, div.text) = None THEN None
    ELSE MapQuantSubsection(FirstIn(quant_subsections, div.text))

LowerSectionKeys == [i \in 1..Len(SectionKeys) |-> Lower(SectionKeys[i])]

\* Lines 282-336: [header, subcategory] from the div's text when the span
\* gave no header.
TextHeader(div) ==
    LET t == div.text
        H(header, subcategory) == [header |-> header, subcategory |-> subcategory]
    IN  IF ("math diagnostic test" \in t /\ "verbal diagnostic test" \in t)
           \/ "math diagnostic test & verbal diagnostic test" \in t
        THEN H(Combined, None)
        ELSE IF "math diagnostic test" \in t \/ "math diagnostic" \in t
        THEN H("Math Diagnostic Test", None)
        ELSE IF "verbal diagnostic test" \in t \/ "verbal diagnostic" \in t
        THEN H("Verbal Diagnostic Test", None)
        ELSE IF FirstIn(LowerSectionKeys, t) # None
        THEN H(SectionKeys[CHOOSE i \in 1..Len(SectionKeys) :
                              Lower(SectionKeys[i]) = FirstIn(LowerSectionKeys, t)], None)
        ELSE IF "the verbal section" \in t
        THEN H("The Verbal Section", None)
        ELSE IF "the quant section" \in t \/ DetectedQuantSubsection(div) # None
        THEN H("The Quant Section", DetectedQuantSubsection(div))
        ELSE IF "text completion" \in t /\ "diagnostic" \notin t
        THEN H("The Verbal Section", "Text Completion")
        ELSE IF "sentence equivalence" \in t /\ "diagnostic" \notin t
        THEN H("The Verbal Section", "Sentence Equivalence")
        ELSE IF "reading comprehension" \in t /\ "diagnostic" \notin t
        THEN H("The Verbal Section", "Reading Comprehension")
        ELSE IF "paragraph argument" \in t \/ "passage paragraph" \in t
        THEN H("The Verbal Section", "Passage Paragraph Argument")
        ELSE IF "verbal practice sections" \in t
        THEN H("The Verbal Section", "Verbal Practice Sections")
        ELSE IF "verbal practice adaptive sections" \in t
        THEN H("The Verbal Section", "Verbal Practice Adaptive Sections")
        ELSE IF "quant practice sections" \in t
        THEN H("The Quant Section", "Quant Practice Sections")
        ELSE IF "quant practice adaptive sections" \in t
        THEN H("The Quant Section", "Quant Practice Adaptive Sections")
        ELSE H(None, None)

SectionHeaderTextFirst(div) ==
    IF TextHeader(div).header # None THEN TextHeader(div)
    ELSE [header |-> SpanHeader(div), subcategory |-> None]

SectionHeader(div) ==
    IF SpanHeader(div) # None THEN [header |-> SpanHeader(div), subcategory |-> None]
    ELSE TextHeader(div)

\* Lines 359-372: the subcategory of a 'GRE ...' header.
GreSubcategory(section_header) ==
    IF section_header = "GRE Arithmetic" THEN "Arithmetic"
    ELSE IF section_header \in {"GRE Algebra & Word Problems", "GRE Algebra"}
    THEN "Word Problems"
    ELSE IF section_header = "GRE Geometry" THEN "Triangles"
    ELSE IF section_header = "GRE Data Analysis" THEN "Data Interpretation"
    ELSE None

Ctx(main_category, section_subcategory, is_math_diagnostic, is_verbal_diagnostic) ==
    [main_category |-> main_category, section_subcategory |-> section_subcategory,
     is_math_diagnostic |-> is_math_diagnostic,
     is_verbal_diagnostic |-> is_verbal_diagnostic]

\* Lines 339-382: the calls of _extract_questions_from_div a div gets, in
\* order: two for the combined header, none for an unrecognised div.
DivPasses(div) ==
    LET h == SectionHeader(div)
    IN  IF h.header = Combined
        THEN <<Ctx("Math Diagnostic Test", None, TRUE, FALSE),
               Ctx("Verbal Diagnostic Test", None, FALSE, TRUE)>>
        ELSE IF h.header \in {"Math Diagnostic Test", "Verbal Diagnostic Test"}
        THEN <<Ctx(h.header, None, FALSE, FALSE)>>
        ELSE IF h.header = "The Verbal Section"
        THEN <<Ctx("Verbal Section", h.subcategory, FALSE, FALSE)>>
        ELSE IF h.header = "The Quant Section"
        THEN <<Ctx("Quantitative Section", h.subcategory, FALSE, FALSE)>>
        ELSE IF h.header # None
        THEN <<Ctx("Quantitative Section", GreSubcategory(h.header), FALSE, FALSE)>>
        ELSE <<>>

RECURSIVE ParseDiv(_, _, _)
ParseDiv(qbc, elements, passes) ==
    IF passes = <<>> THEN qbc
    ELSE ParseDiv(ExtractQuestionsFromDiv(qbc, elements, Head(passes)),
                  elements, Tail(passes))

\* parse_main_page_from_url after a successful fetch (lines 224-394); a page
\* is the sequence of its 'item text' divs.
RECURSIVE ParseDivs(_, _)
ParseDivs(qbc, divs) ==
    IF divs = <<>> THEN qbc
    ELSE ParseDivs(ParseDiv(qbc, Head(divs).elements, DivPasses(Head(divs))),
                   Tail(divs))

ParseMainPage(page) == ParseDivs(<<>>, page)

(***************************************************************************)
(* The inputs of the model: the texts, hrefs and divs pages are built of.  *)
(***************************************************************************)
T_QCQ == Text("QCQ -", "qcq", TRUE, 5, {})
T_PS == Text("PS -", "ps", TRUE, 4, {})
T_TC == Text("TC -", "tc", TRUE, 4, {})
T_OS == Text("Overlapping Sets", "", FALSE, 16, {"Overlapping Sets"})
T_Q1 == Text("If x > 0, what is x?", "", FALSE, 20, {})
T_Q2 == Text("What is the area of the circle?", "", FALSE, 31, {})
T_Q3 == Text("A train travels 60 miles", "", FALSE, 24, {})

\* href="https://gre.myprepclub.com/forum/q1-101.html#p1"
H_Q1 == Url("https", "gre.myprepclub.com", "/forum/q1-101.html", "", "p1")
\* href="q1-101.html#p2": the same page, relative, another fragment
H_Q1_REL == Url("", "", "q1-101.html", "", "p2")
\* href="/forum/q2-102.html"
H_Q2 == Url("", "", "/forum/q2-102.html", "", "")
\* href="https://example.com/about": no forum page, no topic id
H_ABOUT == Url("https", "example.com", "/about", "", "")
\* href="search.php?keywords=gre": joins to .../forum/search.php, denylisted
H_SEARCH == Url("", "", "search.php", "keywords=gre", "")
\* href="http-error-codes-123.html#p9": relative, and begins with "http"
H_HTTP_REL == Url("", "", "http-error-codes-123.html", "", "p9")

Items ==
    { <<Marker(T_QCQ)>>,
      <<Marker(T_TC)>>,
      <<Marker(T_OS)>>,
      <<Anchor(T_Q1, H_Q1)>>,
      <<Anchor(T_Q3, H_HTTP_REL)>>,
      Ol(<<Anchor(T_Q1, H_Q1_REL), Anchor(T_Q2, H_Q2)>>),
      Ol(<<Anchor(T_Q2, H_Q2), Marker(T_PS), Anchor(T_Q3, H_ABOUT)>>),
      <<Anchor(T_Q2, H_SEARCH)>> }

RECURSIVE ItemSeqs(_)
ItemSeqs(n) ==
    IF n = 0 THEN {<<>>}
    ELSE ItemSeqs(n - 1)
         \cup {Append(q, x) : q \in {q \in ItemSeqs(n - 1) : Len(q) = n - 1}, x \in Items}

Div(span, span_text, text, elements) ==
    [span |-> span, span_text |-> span_text, text |-> text, elements |-> elements]

\* The headers of the model: the combined diagnostic span, a plain "Math
\* Diagnostic Test" line, a red 'GRE Arithmetic' span, a plain "The Quant
\* Section" line, and no header at all.
Headers ==
    { [span |-> TRUE, span_text |-> {"math diagnostic test", "verbal diagnostic test"},
       text |-> {"math diagnostic test", "verbal diagnostic test", "math diagnostic",
                 "verbal diagnostic", "diagnostic"}],
      [span |-> FALSE, span_text |-> {},
       text |-> {"math diagnostic test", "math diagnostic", "diagnostic"}],
      [span |-> TRUE, span_text |-> {"GRE Arithmetic"},
       text |-> {"gre arithmetic", "arithmetic"}],
      [span |-> FALSE, span_text |-> {}, text |-> {"the quant section"}],
      [span |-> FALSE, span_text |-> {}, text |-> {}] }

Divs ==
    {Div(h.span, h.span_text, h.text, Flatten(q)) : h \in Headers, q \in ItemSeqs(MaxItems)}

\* The divs a page of two divs starts with.
FirstDivs ==
    { Div(TRUE, {"GRE Arithmetic"}, {"gre arithmetic", "arithmetic"},
          Flatten(<<Ol(<<Anchor(T_Q1, H_Q1), Anchor(T_Q2, H_Q2)>>)>>)),
      Div(FALSE, {}, {"math diagnostic test", "math diagnostic", "diagnostic"},
          Flatten(<<<<Marker(T_QCQ)>>, <<Anchor(T_Q1, H_Q1)>>>>)) }

\* Headers that several rules of lines 243-336 match at once, or that only a
\* late rule matches: a diagnostic line in a div that names a GRE section, a
\* red 'GRE Geometry' span in a div that mentions a diagnostic, "The Verbal
\* Section" with "Text Completion", "Text Completion" alone, "Verbal
\* Practice Sections" alone, a red span without a section name over "The
\* Quant Section" and "Percents", 'GRE Algebra' with "The Verbal Section",
\* "Text Completion" in a div that says "diagnostic", and "Reading
\* Comprehension" with "The Quant Section".
PriorityHeaders ==
    { [span |-> FALSE, span_text |-> {},
       text |-> {"math diagnostic test", "math diagnostic", "diagnostic",
                 "gre arithmetic", "arithmetic"}],
      [span |-> TRUE, span_text |-> {"GRE Geometry"},
       text |-> {"gre geometry", "math diagnostic", "diagnostic"}],
      [span |-> FALSE, span_text |-> {}, text |-> {"the verbal section", "text completion"}],
      [span |-> FALSE, span_text |-> {}, text |-> {"text completion"}],
      [span |-> FALSE, span_text |-> {}, text |-> {"verbal practice sections"}],
      [span |-> TRUE, span_text |-> {}, text |-> {"the quant section", "percents"}],
      [span |-> FALSE, span_text |-> {}, text |-> {"gre algebra", "the verbal section"}],
      [span |-> FALSE, span_text |-> {}, text |-> {"text completion", "diagnostic"}],
      [span |-> FALSE, span_text |-> {},
       text |-> {"reading comprehension", "the quant section"}] }

PriorityDivs ==
    {Div(h.span, h.span_text, h.text, Flatten(q)) :
        h \in PriorityHeaders, q \in ItemSeqs(MaxItems - 1)}

Pages ==
    {<<d>> : d \in Divs \cup PriorityDivs}
    \cup {<<d1, d2>> : d1 \in FirstDivs, d2 \in Divs}

(***************************************************************************)
(* State.                                                                  *)
(***************************************************************************)
VARIABLES
    page,                   \* the 'item text' divs of the main page
    questions_by_category,  \* the harvested buckets
    hpc,                    \* parse_main_page_from_url: "div", "scan", "done"
    div_idx,                \* the div being processed
    passes,                 \* the calls of _extract_questions_from_div it gets
    pass,                   \* the loop of the current call: "ol" or "direct"
    i,                      \* the element the loop is at
    cur,                    \* current_question_type, current_topic_subsection
    last,                   \* the element scanned by the last step, if any
    closed,                 \* the bucket that last received a Link Record
    pc,                     \* main(): the statement it is at
    args,                   \* --main-category and --subcategory
    bucket_idx,             \* the bucket the nested loops of main() are at
    link_idx,               \* the link of that bucket
    saved_questions,        \* the summaries of the current bucket
    total_questions,
    processed_any,
    printed,                \* the messages written to standard output
    saved,                  \* the question files written, in order
    files,                  \* the .json files of the output directory
    attempted,              \* the calls of extract_question_content, in order
    f,                      \* the activation of fetch_page
    outstanding,            \* the GET requests in flight
    idle,                   \* time slept since the last fetched question page
    seed,                   \* sanitize_filename: the text it is applied to
    sanitized,              \* what it returns
    resanitized,            \* what it returns when applied to that result
    spc,                    \* "idle", "call", "returned", "again"; of
                            \* save_question: "save", "probe", "saved"
    filepath,               \* save_question: the path it tries, then returns
    counter,                \* save_question: the next suffix
    question_text,          \* _determine_question_type: its arguments
    answer_choices,
    detected_type,          \* what it returns
    dirs,                   \* cleanup_old_questions: the directories under output_dir
    deleted_count           \* cleanup_old_questions: the files it has unlinked

hvars == <<hpc, div_idx, passes, pass, i, cur, last, closed>>

pvars ==
    <<pc, args, bucket_idx, link_idx, saved_questions, total_questions,
      processed_any, printed, saved, files, attempted, f, outstanding, idle>>

fvars ==
    <<seed, sanitized, resanitized, spc, filepath, counter, question_text,
      answer_choices, detected_type, dirs, deleted_count>>

vars == <<page, questions_by_category, hvars, pvars, fvars>>

\* No function is being applied on its own.
FunctionsIdle ==
    /\ seed = [is_str |-> FALSE, chars |-> <<>>]
    /\ sanitized = <<>>
    /\ resanitized = <<>>
    /\ spc = "idle"
    /\ filepath = [folder |-> <<>>, name |-> <<>>]
    /\ counter = 0
    /\ question_text = <<>>
    /\ answer_choices = <<>>
    /\ detected_type = ""
    /\ dirs = {}
    /\ deleted_count = 0

NoElement == Marker(EmptyText)

\* No activation of fetch_page.
NoFetch ==
    [state |-> "idle", url |-> EmptyHref, attempt |-> 0, last_outcome |-> None,
     sleeps |-> <<>>, gets |-> 0, result |-> None, waited |-> -1]

HarvestInit ==
    /\ page \in Pages
    /\ questions_by_category = <<>>
    /\ hpc = "div"
    /\ div_idx = 1
    /\ passes = <<>>
    /\ pass = "ol"
    /\ i = 1
    /\ cur = NoContext
    /\ last = NoElement
    /\ closed = <<>>
    /\ pc = "harvest"
    /\ args = [main_category |-> None, subcategory |-> None]
    /\ bucket_idx = 0
    /\ link_idx = 0
    /\ saved_questions = <<>>
    /\ total_questions = 0
    /\ processed_any = FALSE
    /\ printed = {}
    /\ saved = <<>>
    /\ files = {}
    /\ attempted = <<>>
    /\ f = NoFetch
    /\ outstanding = 0
    /\ idle = -1
    /\ FunctionsIdle

\* The buckets of new that hold more Link Records than they do in old.
Grown(old, new) ==
    {<<new[b].main, new[b].sub>> : b \in
        {b \in 1..Len(new) :
            Len(new[b].links) >
                (IF BucketIndex(old, new[b].main, new[b].sub) = 0 THEN 0
                 ELSE Len(old[BucketIndex(old, new[b].main, new[b].sub)].links))}}

Closed(old, new) ==
    IF Grown(old, new) = {} THEN closed ELSE CHOOSE c \in Grown(old, new) : TRUE

elements == page[div_idx].elements

\* Lines 237-382: classify the next div; an unrecognised div is skipped.
SkipDiv ==
    /\ hpc = "div"
    /\ div_idx <= Len(page)
    /\ DivPasses(page[div_idx]) = <<>>
    /\ div_idx' = div_idx + 1
    /\ last' = NoElement
    /\ UNCHANGED <<fvars, pvars, page, questions_by_category, hpc, passes, pass, i, cur, closed>>

StartDiv ==
    /\ hpc = "div"
    /\ div_idx <= Len(page)
    /\ DivPasses(page[div_idx]) # <<>>
    /\ passes' = DivPasses(page[div_idx])
    /\ hpc' = "scan"
    /\ pass' = "ol"
    /\ i' = 1
    /\ cur' = NoContext
    /\ last' = NoElement
    /\ UNCHANGED <<fvars, pvars, page, questions_by_category, div_idx, closed>>

\* One iteration of the loop of lines 403-462.
OlPassStep ==
    /\ hpc = "scan"
    /\ pass = "ol"
    /\ i <= Len(elements)
    /\ LET st == ScanStep("ol", [cur |-> cur, qbc |-> questions_by_category],
                          elements[i], Head(passes))
       IN  /\ cur' = st.cur
           /\ questions_by_category' = st.qbc
           /\ closed' = Closed(questions_by_category, st.qbc)
    /\ i' = i + 1
    /\ last' = elements[i]
    /\ UNCHANGED <<fvars, pvars, page, hpc, div_idx, passes, pass>>

\* Lines 464-466: the second loop starts from an empty context.
StartDirectPass ==
    /\ hpc = "scan"
    /\ pass = "ol"
    /\ i > Len(elements)
    /\ pass' = "direct"
    /\ i' = 1
    /\ cur' = NoContext
    /\ last' = NoElement
    /\ UNCHANGED <<fvars, pvars, page, questions_by_category, hpc, div_idx, passes, closed>>

\* One iteration of the loop of lines 468-518.
DirectPassStep ==
    /\ hpc = "scan"
    /\ pass = "direct"
    /\ i <= Len(elements)
    /\ LET st == ScanStep("direct", [cur |-> cur, qbc |-> questions_by_category],
                          elements[i], Head(passes))
       IN  /\ cur' = st.cur
           /\ questions_by_category' = st.qbc
           /\ closed' = Closed(questions_by_category, st.qbc)
    /\ i' = i + 1
    /\ last' = elements[i]
    /\ UNCHANGED <<fvars, pvars, page, hpc, div_idx, passes, pass>>

\* The call returns: the verbal call of a combined div follows (line 348).
NextCall ==
    /\ hpc = "scan"
    /\ pass = "direct"
    /\ i > Len(elements)
    /\ Len(passes) > 1
    /\ passes' = Tail(passes)
    /\ pass' = "ol"
    /\ i' = 1
    /\ cur' = NoContext
    /\ last' = NoElement
    /\ UNCHANGED <<fvars, pvars, page, questions_by_category, hpc, div_idx, closed>>

EndDiv ==
    /\ hpc = "scan"
    /\ pass = "direct"
    /\ i > Len(elements)
    /\ Len(passes) = 1
    /\ passes' = <<>>
    /\ hpc' = "div"
    /\ div_idx' = div_idx + 1
    /\ pass' = "ol"
    /\ i' = 1
    /\ cur' = NoContext
    /\ last' = NoElement
    /\ UNCHANGED <<fvars, pvars, page, questions_by_category, closed>>

\* Lines 384-394: every div is done, the buckets are returned.
ReturnQuestions ==
    /\ hpc = "div"
    /\ div_idx > Len(page)
    /\ hpc' = "done"
    /\ UNCHANGED <<fvars, pvars, page, questions_by_category, div_idx, passes, pass, i, cur, last,
                   closed>>

HarvestNext ==
    \/ SkipDiv
    \/ StartDiv
    \/ OlPassStep
    \/ StartDirectPass
    \/ DirectPassStep
    \/ NextCall
    \/ EndDiv
    \/ ReturnQuestions

SpecHarvest == HarvestInit /\ [][HarvestNext]_vars

(***************************************************************************)
(* Claims about the link harvester, under SpecHarvest.                     *)
(***************************************************************************)
Buckets == 1..Len(questions_by_category)

StoredUrls(b) ==
    {questions_by_category[b].links[k].url : k \in 1..Len(questions_by_category[b].links)}

AllStoredUrls == UNION {StoredUrls(b) : b \in Buckets}

\* A link the harvester looks at: an <a> of class postlink-local with an href.
IsLink(element) == IsPostlink(element) /\ element.href # EmptyHref

\* The current call's arguments, while a div is scanned.
ctx == Head(passes)

\* The step just taken was an iteration of one of the two loops.
ScanStepTaken == hpc = "scan" /\ i' = i + 1

\* C6: after harvesting any page (and at every point during the harvest) no
\* (main category, subcategory) bucket holds two Link Records with the same
\* normalized URL.
C6_NoDuplicateUrlInBucket ==
    \A b \in Buckets :
        \A j, k \in 1..Len(questions_by_category[b].links) :
            j # k => questions_by_category[b].links[j].url
                        # questions_by_category[b].links[k].url

\* A harvest is over in which one div offered the same page under two hrefs
\* that differ in form and fragment, and a bucket holds it.
C6_Witness ==
    /\ hpc = "done"
    /\ \E d \in 1..Len(page) :
        \E j, k \in 1..Len(page[d].elements) :
            /\ j < k
            /\ IsLink(page[d].elements[j])
            /\ IsLink(page[d].elements[k])
            /\ page[d].elements[j].href # page[d].elements[k].href
            /\ ResolveHref(page[d].elements[j].href) = ResolveHref(page[d].elements[k].href)
            /\ ResolveHref(page[d].elements[j].href) \in AllStoredUrls

\* C7: every URL stored in a Link Record is in normalized form: it has no
\* fragment, it is absolute, and normalizing it again leaves it unchanged.
C7_StoredUrlsNormalizedAndAbsolute ==
    \A url \in AllStoredUrls :
        /\ url.fragment = ""
        /\ IsAbsolute(url)
        /\ NormalizeUrl(url) = url

\* The question-link shape of the specification: an HTML page under the
\* forum path, or a topic-id query parameter.
QuestionLinkShape(url) ==
    \/ url.path \in {"/forum/q1-101.html", "/forum/q2-102.html",
                     "/forum/http-error-codes-123.html",
                     "/forum/the-5-lb-book-of-gre-practice-problems-34935.html"}
    \/ url.query \in {"t=101", "t=102"}

\* C8 as claimed: a stored URL matches no denylist fragment and has the
\* question-link shape.
C8_StoredUrlsPassBothTests ==
    \A url \in AllStoredUrls :
        /\ TermsIn(url) \cap SkipTerms = {}
        /\ QuestionLinkShape(url)

\* C8 as amended: a stored URL matches no denylist fragment (the harvester
\* applies no shape test).
C8_StoredUrlsNotDenylisted ==
    \A url \in AllStoredUrls : TermsIn(url) \cap SkipTerms = {}

\* A harvest is over that met a denylisted link and a link without the
\* question-link shape, and stored the second.
C8_Witness ==
    /\ hpc = "done"
    /\ \E d \in 1..Len(page) :
        \E j, k \in 1..Len(page[d].elements) :
            /\ IsLink(page[d].elements[j])
            /\ TermsIn(ResolveHref(page[d].elements[j].href)) \cap SkipTerms # {}
            /\ IsLink(page[d].elements[k])
            /\ ~QuestionLinkShape(ResolveHref(page[d].elements[k].href))
            /\ ResolveHref(page[d].elements[k].href) \in AllStoredUrls

\* No category is active: no marker has set the context and the div gave no
\* section subcategory.
NoActiveCategory(c) == c = NoContext /\ ctx.section_subcategory = None

InBucket(qbc, bucket, url) ==
    /\ BucketIndex(qbc, bucket[1], bucket[2]) # 0
    /\ HasUrl(qbc[BucketIndex(qbc, bucket[1], bucket[2])].links, url)

\* C9 as claimed: a non-denylisted link met while no category is active, in a
\* div that is scanned or in a div without a recognizable header, is assigned
\* to the most recently closed category.
C9_UnresolvedLinkGoesToLastClosed ==
    [][/\ (ScanStepTaken /\ IsLink(last') /\ ~IsSkipped(ResolveHref(last'.href))
             /\ NoActiveCategory(cur') /\ closed # <<>>)
          => InBucket(questions_by_category', closed, ResolveHref(last'.href))
       /\ (hpc = "div" /\ hpc' = "div" /\ div_idx' = div_idx + 1 /\ closed # <<>>)
          => \A k \in 1..Len(page[div_idx].elements) :
                (IsLink(page[div_idx].elements[k])
                 /\ ~IsSkipped(ResolveHref(page[div_idx].elements[k].href)))
                => InBucket(questions_by_category', closed,
                            ResolveHref(page[div_idx].elements[k].href))]_vars

\* C9 as amended: a link met while no category is active is dropped: the
\* iteration that meets it, and the skipping of a div without a recognizable
\* header, leave the buckets as they were.
C9_UnresolvedLinkIsDropped ==
    [][/\ (ScanStepTaken /\ NoActiveCategory(cur'))
          => questions_by_category' = questions_by_category
       /\ (hpc = "div" /\ hpc' = "div" /\ div_idx' = div_idx + 1)
          => questions_by_category' = questions_by_category]_vars

\* The second loop has just met a non-denylisted link with no category
\* active, after an earlier div filled a bucket, and no bucket holds it.
C9_Witness ==
    /\ hpc = "scan"
    /\ pass = "direct"
    /\ IsLink(last)
    /\ ~IsSkipped(ResolveHref(last.href))
    /\ NoActiveCategory(cur)
    /\ closed # <<>>
    /\ ResolveHref(last.href) \notin AllStoredUrls

IsMarkerText(text) ==
    DetectQuestionTypeMarker(text) # None \/ DetectTopicSubsection(text) # None

\* The Link Records a step added: those beyond the length the bucket had.
OldLen(old, bucket) ==
    IF BucketIndex(old, bucket.main, bucket.sub) = 0 THEN 0
    ELSE Len(old[BucketIndex(old, bucket.main, bucket.sub)].links)

Added(old, new) ==
    UNION {{[main |-> new[b].main, sub |-> new[b].sub, record |-> new[b].links[k]] :
                k \in (OldLen(old, new[b]) + 1)..Len(new[b].links)} :
           b \in 1..Len(new)}

Outcomes == {"ConnectionError", "Timeout", "200", "400", "404", "503"}

TransportErrors == {"ConnectionError", "Timeout"}

ErrorStatuses == {"400", "404", "503"}

\* response.raise_for_status() (line 656) raises HTTPError for 4xx and 5xx.
Raised(outcome) ==
    IF outcome \in TransportErrors THEN outcome
    ELSE IF outcome \in ErrorStatuses THEN "HTTPError"
    ELSE None

\* except requests.RequestException (line 658): HTTPError, ConnectionError
\* and Timeout are all subclasses of RequestException.
CaughtTransportOnly(exception) == exception \in TransportErrors

Caught(exception) == exception \in {"ConnectionError", "Timeout", "HTTPError"}

\* time.sleep(2 ** attempt), lines 654 and 660.
BackoffDelayFromNext(attempt) == Pow(BackoffBase, attempt + 1)

BackoffDelay(attempt) == Pow(BackoffBase, attempt)

\* fetch_page(url) is called: range(retries) starts at attempt 0.
Call(url) ==
    [state |-> "loop", url |-> url, attempt |-> 0, last_outcome |-> None,
     sleeps |-> <<>>, gets |-> 0, result |-> None, waited |-> -1]

\* Line 652: the GET is sent.
FetchGet ==
    /\ f.state = "loop"
    /\ f.attempt < Retries
    /\ f' = [f EXCEPT !.state = "inflight", !.gets = @ + 1, !.waited = idle]
    /\ outstanding' = outstanding + 1
    /\ idle' = -1
    /\ UNCHANGED <<fvars, page, questions_by_category, hvars, pc, args, bucket_idx, link_idx,
                   saved_questions, total_questions, processed_any, printed, saved,
                   files, attempted>>

\* Lines 653-655: status 400 before the last attempt: sleep and go round again.
Retry400 ==
    /\ f.state = "inflight"
    /\ f.attempt < Retries - 1
    /\ f' = [f EXCEPT !.state = "loop", !.last_outcome = "400",
                      !.sleeps = Append(@, BackoffDelay(f.attempt)),
                      !.attempt = @ + 1]
    /\ outstanding' = outstanding - 1
    /\ UNCHANGED <<fvars, page, questions_by_category, hvars, pc, args, bucket_idx, link_idx,
                   saved_questions, total_questions, processed_any, printed, saved,
                   files, attempted, idle>>

\* Lines 656-657: raise_for_status() passes, the response is returned.
ReturnResponse ==
    /\ f.state = "inflight"
    /\ \E outcome \in Outcomes :
        /\ Raised(outcome) = None
        /\ f' = [f EXCEPT !.state = "returned", !.last_outcome = outcome,
                          !.result = "response"]
    /\ outstanding' = outstanding - 1
    /\ idle' = IF pc = "extract" THEN 0 ELSE -1
    /\ UNCHANGED <<fvars, page, questions_by_category, hvars, pc, args, bucket_idx, link_idx,
                   saved_questions, total_questions, processed_any, printed, saved,
                   files, attempted>>

\* Lines 658-663: session.get or raise_for_status() raised.  An exception the
\* except clause does not catch leaves fetch_page and ends the run.
HandleException ==
    /\ f.state = "inflight"
    /\ \E outcome \in Outcomes :
        /\ Raised(outcome) # None
        /\ outcome = "400" => f.attempt = Retries - 1
        /\ IF ~Caught(Raised(outcome))
           THEN /\ f' = [f EXCEPT !.state = "returned", !.last_outcome = outcome,
                                  !.result = "raised"]
                /\ pc' = "crashed"
                /\ UNCHANGED printed
           ELSE IF f.attempt < Retries - 1
           THEN /\ f' = [f EXCEPT !.state = "loop", !.last_outcome = outcome,
                                  !.sleeps = Append(@, BackoffDelay(f.attempt)),
                                  !.attempt = @ + 1]
                /\ UNCHANGED <<pc, printed>>
           ELSE /\ f' = [f EXCEPT !.state = "returned", !.last_outcome = outcome,
                                  !.result = None]
                /\ printed' = printed \cup {"Error fetching"}
                /\ UNCHANGED pc
    /\ outstanding' = outstanding - 1
    /\ UNCHANGED <<fvars, page, questions_by_category, hvars, args, bucket_idx, link_idx,
                   saved_questions, total_questions, processed_any, saved,
                   files, attempted, idle>>


\* folder_structure (lines 52-100).
MainCategories ==
    {"Math Diagnostic Test", "Verbal Diagnostic Test", "Quantitative Section",
     "Verbal Section"}

folder_structure(main_category) ==
    CASE main_category = "Math Diagnostic Test" ->
            {"Quantitative Comparison (QCQ)", "Problem Solving (PS)",
             "Multiple Answer Choices (MAC)", "Numeric Entry (NE)",
             "Data Interpretation (DI)"}
      [] main_category = "Verbal Diagnostic Test" ->
            {"Text Completion (TC)", "Sentence Equivalence (SE)",
             "Reading Comprehension (RC)"}
      [] main_category = "Quantitative Section" ->
            {"Arithmetic", "Exponents and Roots", "Linear and Quadratic Equations",
             "Functions, Formulas, and Sequences", "Inequalities and Absolute Values",
             "Divisibility and Primes", "Number Properties", "Fractions and Decimals",
             "Percents", "Ratios", "Word Problems", "Two Variables Word Problems",
             "Averages, Weighted Averages, Median, and Mode",
             "Standard Deviation and Normal Distribution", "Data Interpretation",
             "Triangles", "Polygons and Rectangular Solids", "Circles and Cylinders",
             "Coordinate Geometry", "Mixed Geometry", "Rates and Work",
             "Probability, Combinatorics, and Overlapping Sets", "Advanced Quant",
             "Quant Practice Sections", "Quant Practice Adaptive Sections"}
      [] main_category = "Verbal Section" ->
            {"Text Completion", "Sentence Equivalence", "Reading Comprehension",
             "Passage Paragraph Argument", "Verbal Practice Sections",
             "Verbal Practice Adaptive Sections"}

(***************************************************************************)
(* sanitize_filename (lines 890-906).  A text is a sequence of characters; *)
(* a character is a one-character string, except the two code points that  *)
(* are written by their names: "U+0130" (capital I with dot above, whose   *)
(* lower() is "i" followed by the combining mark "U+0307").                *)
(***************************************************************************)
max_length == 100

MaxWords == 8

LowerLetters == <<"a", "b", "c", "d", "e", "f", "g", "h", "i", "j", "k", "l", "m", "n", "o", "p", "q", "r", "s", "t", "u", "v", "w", "x", "y", "z">>

UpperLetters == <<"A", "B", "C", "D", "E", "F", "G", "H", "I", "J", "K", "L", "M", "N", "O", "P", "Q", "R", "S", "T", "U", "V", "W", "X", "Y", "Z">>

DigitChars == <<"0", "1", "2", "3", "4", "5", "6", "7", "8", "9">>

Range(seq) == {seq[k] : k \in 1..Len(seq)}

\* \w of a str pattern: letters, digits and the underscore.
WordChars ==
    Range(LowerLetters) \cup Range(UpperLetters) \cup Range(DigitChars)
    \cup {"_", "U+0130"}

IsWordChar(c) == c \in WordChars

\* \s, and what str.split() splits on.
IsSpace(c) == c \in {" ", "\n"}

\* str.lower() of one character.
LowerChar(c) ==
    IF c = "U+0130" THEN <<"i", "U+0307">>
    ELSE IF c \in Range(UpperLetters)
    THEN <<LowerLetters[CHOOSE k \in 1..Len(UpperLetters) : UpperLetters[k] = c]>>
    ELSE <<c>>

\* str.lower().
LowerStr(s) ==
    LET lowered == [k \in 1..(2 * Len(s)) |->
                       IF k % 2 = 1 THEN LowerChar(s[(k + 1) \div 2])[1]
                       ELSE IF Len(LowerChar(s[k \div 2])) = 2
                       THEN LowerChar(s[k \div 2])[2]
                       ELSE ""]
    IN  SelectSeq(lowered, LAMBDA c : c # "")

\* text.split(): the maximal runs of characters that are not whitespace.
WordEnd(s, start) ==
    LET spaces == {k \in start..Len(s) : IsSpace(s[k])} \cup {Len(s) + 1}
    IN  (CHOOSE e \in spaces : \A k \in spaces : e <= k) - 1

RECURSIVE SplitFrom(_, _)
SplitFrom(s, k) ==
    IF k > Len(s) THEN <<>>
    ELSE IF IsSpace(s[k]) THEN SplitFrom(s, k + 1)
    ELSE <<SubSeq(s, k, WordEnd(s, k))>> \o SplitFrom(s, WordEnd(s, k) + 1)

Split(s) == SplitFrom(s, 1)

\* '_'.join(words).
RECURSIVE JoinFirst(_, _)
JoinFirst(words, n) ==
    IF n = 0 THEN <<>>
    ELSE IF n = 1 THEN words[1]
    ELSE JoinFirst(words, n - 1) \o <<"_">> \o words[n]

Join(words) == JoinFirst(words, Len(words))

\* re.sub(r'[^\w\s-]', '', filename).
StripNonWord(s) == SelectSeq(s, LAMBDA c : IsWordChar(c) \/ IsSpace(c) \/ c = "-")

IsSeparator(c) == c = "-" \/ IsSpace(c)

\* re.sub(r'[-\s]+', '_', filename): each maximal run of hyphens and
\* whitespace becomes one underscore.
CollapseSeparators(s) ==
    LET marked == [k \in 1..Len(s) |->
                      IF ~IsSeparator(s[k]) THEN s[k]
                      ELSE IF k = 1 \/ ~IsSeparator(s[k - 1]) THEN "_" ELSE ""]
    IN  SelectSeq(marked, LAMBDA c : c # "")

\* filename[:max_length].
Truncate(s, n) == IF Len(s) > n THEN SubSeq(s, 1, n) ELSE s

\* filename.strip('_').
Strip(s, c) ==
    LET other == {k \in 1..Len(s) : s[k] # c}
    IN  IF other = {} THEN <<>>
        ELSE SubSeq(s, CHOOSE k \in other : \A j \in 1..(k - 1) : s[j] = c,
                       CHOOSE k \in other : \A j \in (k + 1)..Len(s) : s[j] = c)

QUESTION == <<"q", "u", "e", "s", "t", "i", "o", "n">>

\* A value that is not a str (None, a number).
NotAString == [is_str |-> FALSE, chars |-> <<>>]

Str(chars) == [is_str |-> TRUE, chars |-> chars]

\* Lines 890-906.
sanitize_filename(text) ==
    IF ~text.is_str \/ text.chars = <<>> THEN QUESTION
    ELSE LET words == Truncate(Split(text.chars), MaxWords)
             joined == Join(words)
             stripped == StripNonWord(joined)
             collapsed == CollapseSeparators(stripped)
             truncated == Truncate(collapsed, max_length)
             filename == LowerStr(Strip(truncated, "_"))
         IN  IF filename = <<>> THEN QUESTION ELSE filename


\* The seeds of the model: every text of at most MaxTextLen characters over
\* Alphabet, each of them after a word that reaches max_length and after
\* seven words, a question text, and a value that is not a str.
MaxTextLen == 3

Alphabet == {"a", "B", "_", "-", " ", "?", "U+0130"}

ShortTexts == UNION {[1..n -> Alphabet] : n \in 0..MaxTextLen}

LongWord == [k \in 1..max_length - 2 |-> "a"]

SevenWords == [k \in 1..2 * MaxWords - 3 |-> IF k % 2 = 1 THEN "a" ELSE " "]

Q_SUM == <<"W", "h", "a", "t", " ", "i", "s", " ", "2", " ", "+", " ", "2", "?">>

Seeds ==
    {NotAString, Str(Q_SUM)}
    \cup {Str(t) : t \in ShortTexts}
    \cup {Str(LongWord \o t) : t \in ShortTexts}
    \cup {Str(SevenWords \o t) : t \in ShortTexts}

SanitizeInit ==
    /\ page = <<>>
    /\ questions_by_category = <<>>
    /\ hpc = "idle"
    /\ div_idx = 0
    /\ passes = <<>>
    /\ pass = "ol"
    /\ i = 0
    /\ cur = NoContext
    /\ last = NoElement
    /\ closed = <<>>
    /\ pc = "idle"
    /\ args = [main_category |-> None, subcategory |-> None]
    /\ bucket_idx = 0
    /\ link_idx = 0
    /\ saved_questions = <<>>
    /\ total_questions = 0
    /\ processed_any = FALSE
    /\ printed = {}
    /\ saved = <<>>
    /\ files = {}
    /\ attempted = <<>>
    /\ f = NoFetch
    /\ outstanding = 0
    /\ idle = -1
    /\ seed \in Seeds
    /\ sanitized = <<>>
    /\ resanitized = <<>>
    /\ spc = "call"
    /\ filepath = [folder |-> <<>>, name |-> <<>>]
    /\ counter = 0
    /\ question_text = <<>>
    /\ answer_choices = <<>>
    /\ detected_type = ""
    /\ dirs = {}
    /\ deleted_count = 0

\* sanitize_filename(seed).
SanitizeFilename ==
    /\ spc = "call"
    /\ sanitized' = sanitize_filename(seed)
    /\ spc' = "returned"
    /\ UNCHANGED <<page, questions_by_category, hvars, pvars, seed, resanitized, filepath,
                   counter, question_text, answer_choices, detected_type, dirs,
                   deleted_count>>

\* sanitize_filename applied to the name it returned.
SanitizeAgain ==
    /\ spc = "returned"
    /\ resanitized' = sanitize_filename(Str(sanitized))
    /\ spc' = "again"
    /\ UNCHANGED <<page, questions_by_category, hvars, pvars, seed, sanitized, filepath,
                   counter, question_text, answer_choices, detected_type, dirs,
                   deleted_count>>

SanitizeNext ==
    \/ SanitizeFilename
    \/ SanitizeAgain

SpecSanitize == SanitizeInit /\ [][SanitizeNext]_vars


(***************************************************************************)
(* Claims about sanitize_filename, under SpecSanitize.                     *)
(***************************************************************************)
\* C17: sanitize_filename is idempotent: applied to the name it returned
\* (for a seed of more than 8 words, a seed cut at max_length, an empty or
\* non-string seed, or any other), it returns that name again.
C17_SanitizeFilenameIdempotent ==
    spc = "again" => resanitized = sanitized

HasAdjacentUnderscores(s) == \E k \in 1..(Len(s) - 1) : s[k] = "_" /\ s[k + 1] = "_"

\* The words of a text, one space between them.
RECURSIVE SpaceJoinFirst(_, _)
SpaceJoinFirst(words, n) ==
    IF n = 0 THEN <<>>
    ELSE IF n = 1 THEN words[1]
    ELSE SpaceJoinFirst(words, n - 1) \o <<" ">> \o words[n]

SpaceJoin(words) == SpaceJoinFirst(words, Len(words))

NameNonEmpty == sanitized # <<>>

NameWithinMaxLength == Len(sanitized) <= max_length

NameFromFirstWords ==
    seed.is_str =>
        sanitized = sanitize_filename(Str(SpaceJoin(Truncate(Split(seed.chars), MaxWords))))

NameLowercase == \A k \in 1..Len(sanitized) : LowerChar(sanitized[k]) = <<sanitized[k]>>

NameOnlyWordChars == \A k \in 1..Len(sanitized) : IsWordChar(sanitized[k])

NameSingleUnderscores ==
    HasAdjacentUnderscores(sanitized) => seed.is_str /\ HasAdjacentUnderscores(seed.chars)

NameNoOuterUnderscore == sanitized[1] # "_" /\ sanitized[Len(sanitized)] # "_"

\* C18: the name sanitize_filename returns is non-empty, has at most
\* max_length characters, is made of the first 8 words of the seed only, is
\* lowercase, holds word characters only, has no two adjacent underscores
\* unless the seed had them, and neither starts nor ends with an underscore.
C18_SanitizedNameWellFormed ==
    spc = "returned" =>
        /\ NameNonEmpty
        /\ NameWithinMaxLength
        /\ NameFromFirstWords
        /\ NameLowercase
        /\ NameOnlyWordChars
        /\ NameSingleUnderscores
        /\ NameNoOuterUnderscore


(***************************************************************************)
(* The output directory: save_question (lines 908-925), create_index       *)
(* (lines 927-937) and cleanup_old_questions (lines 111-186).  A file is   *)
(* the folder it is in, its name without the extension .json, and its      *)
(* content.                                                                *)
(***************************************************************************)
File(folder, name, content) == [folder |-> folder, name |-> name, content |-> content]

\* The content of a file left by an earlier run.
OldContent == [kind |-> "old"]

\* A path that exists whatever the directory holds is never found.
ExistsNever(fs, folder, name) == FALSE

\* filepath.exists().
Exists(fs, folder, name) == \E file \in fs : file.folder = folder /\ file.name = name

\* str(counter).
RECURSIVE Decimal(_)
Decimal(n) ==
    IF n < 10 THEN <<DigitChars[n + 1]>>
    ELSE Decimal(n \div 10) \o <<DigitChars[(n % 10) + 1]>>

\* Line 916: f"{filename}_{counter}.json".
Suffixed(name, n) == name \o <<"_">> \o Decimal(n)

\* open(filepath, 'w') and json.dump: the file is created or replaced.
WriteFile(fs, folder, name, content) ==
    {file \in fs : ~(file.folder = folder /\ file.name = name)}
    \cup {File(folder, name, content)}

\* Lines 912-916: the first name of filename, filename_1, filename_2, ...
\* that does not exist.
RECURSIVE FreeName(_, _, _, _)
FreeName(fs, folder, name, n) ==
    LET tried == IF n = 0 THEN name ELSE Suffixed(name, n)
    IN  IF Exists(fs, folder, tried) THEN FreeName(fs, folder, name, n + 1) ELSE tried

INDEX == <<"i", "n", "d", "e", "x">>

\* create_index (lines 927-937).
create_index(fs, folder, questions) ==
    WriteFile(fs, folder, INDEX,
              [kind |-> "index", category |-> folder[Len(folder)],
               total_questions |-> Len(questions), questions |-> questions])

quant_question_types ==
    {"Quantitative Comparison (QCQ)", "Problem Solving (PS)",
     "Multiple Answer Choices (MAC)", "Numeric Entry (NE)", "Data Interpretation (DI)"}

\* The content of a file whose name does not end in '.json'; the names of
\* all other files are written without their '.json'.
NotJson == [kind |-> "text"]

\* glob('*.json').
IsJson(file) == file.content # NotJson

\* A cleanup that takes every subcategory of the targeted main category.
CleanedIgnoringSubcategory(folder, target) ==
    \/ /\ Len(folder) = 2
       /\ folder[1] = "Quantitative Section"
       /\ folder[2] \in quant_question_types
       /\ target.main_category \in {None, "Quantitative Section"}
    \/ /\ Len(folder) \in {2, 3}
       /\ folder[1] \in MainCategories
       /\ target.main_category \in {None, folder[1]}
       /\ folder[2] \in folder_structure(folder[1])
       /\ Len(folder) = 3 =>
            folder[1] = "Quantitative Section" /\ folder[3] \in quant_question_types

\* Lines 126-186: the folders whose *.json files are deleted.
Cleaned(folder, target) ==
    \/ /\ Len(folder) = 2
       /\ folder[1] = "Quantitative Section"
       /\ folder[2] \in quant_question_types
       /\ target.main_category \in {None, "Quantitative Section"}
    \/ /\ Len(folder) \in {2, 3}
       /\ folder[1] \in MainCategories
       /\ target.main_category \in {None, folder[1]}
       /\ folder[2] \in folder_structure(folder[1])
       /\ target.subcategory \in {None, folder[2]}
       /\ Len(folder) = 3 =>
            folder[1] = "Quantitative Section" /\ folder[3] \in quant_question_types

\* cleanup_old_questions (lines 111-186): the files it leaves when every
\* unlink succeeds.
cleanup_old_questions(fs, target) ==
    {file \in fs : ~(IsJson(file) /\ Cleaned(file.folder, target))}

\* Lines 133-151: the remnant folders 'Quantitative Section/<question type>'
\* that are looked at.
RemnantFolders(target) ==
    IF target.main_category \in {None, "Quantitative Section"}
    THEN {<<"Quantitative Section", qt_folder>> : qt_folder \in quant_question_types}
    ELSE {}

\* Line 149: not any(qt_path.iterdir()).
IsEmptyDir(fs, ds, dir) ==
    /\ ~\E file \in fs : file.folder = dir
    /\ ~\E sub \in ds : Len(sub) = Len(dir) + 1 /\ SubSeq(sub, 1, Len(dir)) = dir

\* Lines 147-151: the directories cleanup_old_questions leaves, fs being the
\* files it left: a remnant folder that is empty is removed.
cleanup_directories(fs, ds, target) ==
    {dir \in ds : ~(dir \in RemnantFolders(target) /\ IsEmptyDir(fs, ds, dir))}

\* The question record that save_question dumps.
QuestionRecord(question, source_url) ==
    [kind |-> "question", question |-> question, source_url |-> source_url]

\* The directories save_question is applied to: any choice of files named
\* after the seed, with the suffixes up to MaxSuffix, and of other files, in
\* the folder of the call and in another one.
MaxSuffix == 2

SaveSeeds == {Str(<<"a">>), Str(<<"a", " ", "1">>), Str(Q_SUM), Str(INDEX)}

SaveFolder == <<"Verbal Section", "Text Completion">>

OtherFolder == <<"Verbal Section", "Sentence Equivalence">>

Directories ==
    {here \cup there :
        here \in SUBSET ({File(SaveFolder, <<"a">>, OldContent),
                          File(SaveFolder, INDEX, OldContent)}
                         \cup {File(SaveFolder, Suffixed(<<"a">>, n), OldContent) :
                                  n \in 1..MaxSuffix}),
        there \in SUBSET {File(OtherFolder, <<"a">>, OldContent)}}

NoPath == [folder |-> <<>>, name |-> <<>>]

SaveInit ==
    /\ page = <<>>
    /\ questions_by_category = <<>>
    /\ hpc = "idle"
    /\ div_idx = 0
    /\ passes = <<>>
    /\ pass = "ol"
    /\ i = 0
    /\ cur = NoContext
    /\ last = NoElement
    /\ closed = <<>>
    /\ pc = "idle"
    /\ args = [main_category |-> None, subcategory |-> None]
    /\ bucket_idx = 0
    /\ link_idx = 0
    /\ saved_questions = <<>>
    /\ total_questions = 0
    /\ processed_any = FALSE
    /\ printed = {}
    /\ saved = <<>>
    /\ files \in Directories
    /\ attempted = <<>>
    /\ f = NoFetch
    /\ outstanding = 0
    /\ idle = -1
    /\ seed \in SaveSeeds
    /\ sanitized = <<>>
    /\ resanitized = <<>>
    /\ spc = "save"
    /\ filepath = [folder |-> SaveFolder, name |-> <<>>]
    /\ counter = 0
    /\ question_text = <<>>
    /\ answer_choices = <<>>
    /\ detected_type = ""
    /\ dirs = {}
    /\ deleted_count = 0

\* Lines 910-913: the first path is the sanitized seed.
SaveStart ==
    /\ spc = "save"
    /\ sanitized' = sanitize_filename(seed)
    /\ filepath' = [filepath EXCEPT !.name = sanitize_filename(seed)]
    /\ counter' = 1
    /\ spc' = "probe"
    /\ UNCHANGED <<page, questions_by_category, hvars, pvars, seed, resanitized,
                   question_text, answer_choices, detected_type, dirs,
                   deleted_count>>

\* Lines 914-916: the path exists, the next suffix is tried.
SaveProbe ==
    /\ spc = "probe"
    /\ Exists(files, filepath.folder, filepath.name)
    /\ filepath' = [filepath EXCEPT !.name = Suffixed(sanitized, counter)]
    /\ counter' = counter + 1
    /\ UNCHANGED <<page, questions_by_category, hvars, pvars, seed, sanitized,
                   resanitized, spc, question_text, answer_choices, detected_type, dirs,
                   deleted_count>>

\* Lines 914 and 918-921: the path does not exist, the record is written.
SaveWrite ==
    /\ spc = "probe"
    /\ ~Exists(files, filepath.folder, filepath.name)
    /\ files' = WriteFile(files, filepath.folder, filepath.name,
                          QuestionRecord(seed.chars, EmptyHref))
    /\ spc' = "saved"
    /\ UNCHANGED <<page, questions_by_category, hvars, pc, args, bucket_idx, link_idx,
                   saved_questions, total_questions, processed_any, printed, saved,
                   attempted, f, outstanding, idle, seed, sanitized, resanitized,
                   filepath, counter, question_text, answer_choices, detected_type, dirs,
                   deleted_count>>

SaveNext ==
    \/ SaveStart
    \/ SaveProbe
    \/ SaveWrite

\* The loop of lines 914-916 runs on: its test is made, and the statement
\* that follows it is executed, whenever they can be.
SpecSave == SaveInit /\ [][SaveNext]_vars /\ WF_vars(SaveProbe) /\ WF_vars(SaveWrite)


(***************************************************************************)
(* Claims about save_question, under SpecSave.                             *)
(***************************************************************************)
\* The files of a directory at a path.
At(fs, path) == {file \in fs : file.folder = path.folder /\ file.name = path.name}

\* C14: save_question ends for every directory; the path it returns did not
\* exist before the call and is the sanitized seed or, when that exists,
\* the sanitized seed with the smallest suffix _1, _2, ... that does not
\* exist; every file that existed is left as it was, and the file at the
\* returned path holds the saved record.
C14_SaveQuestionWritesFreshPath ==
    /\ (spc = "probe") ~> (spc = "saved")
    /\ [][spc' = "saved" =>
            LET base == sanitize_filename(seed)
                tried(n) == [folder |-> SaveFolder,
                             name |-> IF n = 0 THEN base ELSE Suffixed(base, n)]
            IN  /\ At(files, filepath') = {}
                /\ \E n \in 0..Cardinality(files) :
                      /\ filepath' = tried(n)
                      /\ \A k \in 0..(n - 1) : At(files, tried(k)) # {}
                /\ files \subseteq files'
                /\ files' \ files =
                      {File(filepath'.folder, filepath'.name,
                            QuestionRecord(seed.chars, EmptyHref))}]_vars

\* The sanitized seed and its suffix _1 exist: the record goes to suffix _2.
C14_Witness ==
    /\ spc = "saved"
    /\ filepath.name = Suffixed(sanitize_filename(seed), 2)
    /\ At(files, filepath) # {}


(***************************************************************************)
(* _determine_question_type (lines 852-888).  The question text is a       *)
(* sequence of characters, the answer choices are a list.                  *)
(***************************************************************************)
\* phrase in text.
Contains(text, phrase) ==
    \E k \in 0..(Len(text) - Len(phrase)) : SubSeq(text, k + 1, k + Len(phrase)) = phrase

P_QUANTITY_A == <<"q", "u", "a", "n", "t", "i", "t", "y", " ", "a">>

P_QUANTITY_B == <<"q", "u", "a", "n", "t", "i", "t", "y", " ", "b">>

P_SELECT_ALL == <<"s", "e", "l", "e", "c", "t", " ", "a", "l", "l">>

P_SELECT_ONE_OR_MORE == <<"s", "e", "l", "e", "c", "t", " ", "o", "n", "e", " ", "o", "r", " ", "m", "o", "r", "e">>

P_MARK_ALL == <<"m", "a", "r", "k", " ", "a", "l", "l">>

P_ENTER == <<"e", "n", "t", "e", "r">>

P_NUMERIC == <<"n", "u", "m", "e", "r", "i", "c">>

P_YOUR_ANSWER == <<"y", "o", "u", "r", " ", "a", "n", "s", "w", "e", "r">>

P_BLANK == <<"b", "l", "a", "n", "k">>

P_COMPLETE == <<"c", "o", "m", "p", "l", "e", "t", "e">>

P_SENTENCE == <<"s", "e", "n", "t", "e", "n", "c", "e">>

P_EQUIVALENCE == <<"e", "q", "u", "i", "v", "a", "l", "e", "n", "c", "e">>

P_PASSAGE == <<"p", "a", "s", "s", "a", "g", "e">>

P_ACCORDING_TO_THE_PASSAGE == <<"a", "c", "c", "o", "r", "d", "i", "n", "g", " ", "t", "o", " ", "t", "h", "e", " ", "p", "a", "s", "s", "a", "g", "e">>

\* The multi-select test comes before the comparison test.
DetermineQuestionTypeSelectFirst(text, choices) ==
    LET text_lower == LowerStr(text)
    IN  IF \/ Contains(text_lower, P_SELECT_ALL)
           \/ Contains(text_lower, P_SELECT_ONE_OR_MORE)
           \/ Contains(text_lower, P_MARK_ALL)
        THEN "Multiple Answer Choices (MAC)"
        ELSE IF Contains(text_lower, P_QUANTITY_A) /\ Contains(text_lower, P_QUANTITY_B)
        THEN "Quantitative Comparison (QCQ)"
        ELSE IF Len(choices) > 5 THEN "Multiple Answer Choices (MAC)"
        ELSE IF choices # <<>> THEN "Problem Solving (PS)"
        ELSE "Unknown"

\* The verbal keyword tests come before the single-answer test.
DetermineQuestionTypeVerbalFirst(text, choices) ==
    LET text_lower == LowerStr(text)
    IN  IF Contains(text_lower, P_QUANTITY_A) /\ Contains(text_lower, P_QUANTITY_B)
        THEN "Quantitative Comparison (QCQ)"
        ELSE IF \/ Contains(text_lower, P_SELECT_ALL)
                \/ Contains(text_lower, P_SELECT_ONE_OR_MORE)
                \/ Contains(text_lower, P_MARK_ALL)
        THEN "Multiple Answer Choices (MAC)"
        ELSE IF Len(choices) > 5 THEN "Multiple Answer Choices (MAC)"
        ELSE IF /\ choices = <<>>
                /\ \/ Contains(text_lower, P_ENTER)
                   \/ Contains(text_lower, P_NUMERIC)
                   \/ Contains(text_lower, P_YOUR_ANSWER)
        THEN "Numeric Entry (NE)"
        ELSE IF Contains(text_lower, P_BLANK) \/ Contains(text_lower, P_COMPLETE)
        THEN "Text Completion"
        ELSE IF Contains(text_lower, P_SENTENCE) /\ Contains(text_lower, P_EQUIVALENCE)
        THEN "Sentence Equivalence"
        ELSE IF Contains(text_lower, P_PASSAGE)
        THEN "Reading Comprehension"
        ELSE IF choices # <<>> THEN "Problem Solving (PS)"
        ELSE "Unknown"

\* Lines 852-888.
DetermineQuestionType(text, choices) ==
    LET text_lower == LowerStr(text)
    IN  IF Contains(text_lower, P_QUANTITY_A) /\ Contains(text_lower, P_QUANTITY_B)
        THEN "Quantitative Comparison (QCQ)"
        ELSE IF \/ Contains(text_lower, P_SELECT_ALL)
                \/ Contains(text_lower, P_SELECT_ONE_OR_MORE)
                \/ Contains(text_lower, P_MARK_ALL)
        THEN "Multiple Answer Choices (MAC)"
        ELSE IF Len(choices) > 5 THEN "Multiple Answer Choices (MAC)"
        ELSE IF /\ choices = <<>>
                /\ \/ Contains(text_lower, P_ENTER)
                   \/ Contains(text_lower, P_NUMERIC)
                   \/ Contains(text_lower, P_YOUR_ANSWER)
        THEN "Numeric Entry (NE)"
        ELSE IF /\ choices # <<>>
                /\ Len(choices) <= 5
                /\ ~Contains(text_lower, P_SELECT_ALL)
                /\ ~Contains(text_lower, P_SELECT_ONE_OR_MORE)
        THEN "Problem Solving (PS)"
        ELSE IF Contains(text_lower, P_BLANK) \/ Contains(text_lower, P_COMPLETE)
        THEN "Text Completion"
        ELSE IF Contains(text_lower, P_SENTENCE) /\ Contains(text_lower, P_EQUIVALENCE)
        THEN "Sentence Equivalence"
        ELSE IF \/ Contains(text_lower, P_PASSAGE)
                \/ Contains(text_lower, P_ACCORDING_TO_THE_PASSAGE)
        THEN "Reading Comprehension"
        ELSE IF choices # <<>> THEN "Problem Solving (PS)"
        ELSE "Unknown"

\* The question texts of the model: at most MaxPhrases of the phrases below,
\* as a question writes them, between other words; the lists of at most
\* MaxChoices answer choices.
MaxPhrases == 3

MaxChoices == 6

WrittenPhrases ==
    <<<<"Q", "u", "a", "n", "t", "i", "t", "y", " ", "A">>,
      <<"Q", "u", "a", "n", "t", "i", "t", "y", " ", "B">>,
      <<"S", "e", "l", "e", "c", "t", " ", "a", "l", "l">>,
      <<"s", "e", "l", "e", "c", "t", " ", "o", "n", "e", " ", "o", "r", " ", "m", "o", "r", "e">>,
      <<"m", "a", "r", "k", " ", "a", "l", "l">>,
      <<"E", "n", "t", "e", "r">>,
      <<"n", "u", "m", "e", "r", "i", "c">>,
      <<"y", "o", "u", "r", " ", "a", "n", "s", "w", "e", "r">>,
      <<"b", "l", "a", "n", "k">>,
      <<"c", "o", "m", "p", "l", "e", "t", "e">>,
      <<"s", "e", "n", "t", "e", "n", "c", "e">>,
      <<"e", "q", "u", "i", "v", "a", "l", "e", "n", "c", "e">>,
      <<"p", "a", "s", "s", "a", "g", "e">>>>

RECURSIVE TextOf(_, _)
TextOf(chosen, n) ==
    IF n = 0 THEN <<"I", "f", " ", "x", " ", ">", " ", "0", ":">>
    ELSE TextOf(chosen, n - 1)
         \o (IF n \in chosen THEN <<" ">> \o WrittenPhrases[n] \o <<".">> ELSE <<>>)

QuestionTexts ==
    {TextOf(chosen, Len(WrittenPhrases)) :
        chosen \in {c \in SUBSET (1..Len(WrittenPhrases)) : Cardinality(c) <= MaxPhrases}}

ChoiceLists == {[k \in 1..n |-> <<DigitChars[k + 1]>>] : n \in 0..MaxChoices}

ClassifyInit ==
    /\ page = <<>>
    /\ questions_by_category = <<>>
    /\ hpc = "idle"
    /\ div_idx = 0
    /\ passes = <<>>
    /\ pass = "ol"
    /\ i = 0
    /\ cur = NoContext
    /\ last = NoElement
    /\ closed = <<>>
    /\ pc = "idle"
    /\ args = [main_category |-> None, subcategory |-> None]
    /\ bucket_idx = 0
    /\ link_idx = 0
    /\ saved_questions = <<>>
    /\ total_questions = 0
    /\ processed_any = FALSE
    /\ printed = {}
    /\ saved = <<>>
    /\ files = {}
    /\ attempted = <<>>
    /\ f = NoFetch
    /\ outstanding = 0
    /\ idle = -1
    /\ seed = NotAString
    /\ sanitized = <<>>
    /\ resanitized = <<>>
    /\ spc = "classify"
    /\ filepath = NoPath
    /\ counter = 0
    /\ question_text \in QuestionTexts
    /\ answer_choices \in ChoiceLists
    /\ detected_type = ""
    /\ dirs = {}
    /\ deleted_count = 0

\* Line 737: detected_type = self._determine_question_type(question_text,
\* answer_choices).
DetermineType ==
    /\ spc = "classify"
    /\ detected_type' = DetermineQuestionType(question_text, answer_choices)
    /\ spc' = "classified"
    /\ UNCHANGED <<page, questions_by_category, hvars, pvars, seed, sanitized,
                   resanitized, filepath, counter, question_text, answer_choices, dirs,
                   deleted_count>>

ClassifyNext == DetermineType

SpecClassify == ClassifyInit /\ [][ClassifyNext]_vars

(***************************************************************************)
(* Claims about _determine_question_type, under SpecClassify.              *)
(***************************************************************************)
\* The question text holds the phrase, in any case.
Has(phrase) == Contains(LowerStr(question_text), phrase)

\* C19: a question text that holds both "Quantity A" and "Quantity B", in any
\* case, is classified 'Quantitative Comparison (QCQ)', whatever else the
\* text holds and however many answer choices there are.
C19_BothQuantitiesGiveComparison ==
    (spc = "classified" /\ Has(P_QUANTITY_A) /\ Has(P_QUANTITY_B)) =>
        detected_type = "Quantitative Comparison (QCQ)"

\* Both quantities, 'Select all' and more than five choices: comparison.
C19_Witness ==
    /\ spc = "classified"
    /\ Has(P_QUANTITY_A) /\ Has(P_QUANTITY_B)
    /\ Has(P_SELECT_ALL)
    /\ Len(answer_choices) > 5
    /\ detected_type = "Quantitative Comparison (QCQ)"

\* The type the ordered rules give, for a given multi-select phrasing test.
RuleType(multi_select_phrasing) ==
    LET n == Len(answer_choices)
    IN  IF Has(P_QUANTITY_A) /\ Has(P_QUANTITY_B) THEN "Quantitative Comparison (QCQ)"
        ELSE IF multi_select_phrasing \/ n > 5 THEN "Multiple Answer Choices (MAC)"
        ELSE IF n = 0 /\ (Has(P_ENTER) \/ Has(P_NUMERIC) \/ Has(P_YOUR_ANSWER))
        THEN "Numeric Entry (NE)"
        ELSE IF n \in 1..5 THEN "Problem Solving (PS)"
        ELSE IF Has(P_BLANK) \/ Has(P_COMPLETE) THEN "Text Completion"
        ELSE IF Has(P_SENTENCE) /\ Has(P_EQUIVALENCE) THEN "Sentence Equivalence"
        ELSE IF Has(P_PASSAGE) THEN "Reading Comprehension"
        ELSE IF n > 0 THEN "Problem Solving (PS)"
        ELSE "Unknown"

OpenBrackets == {"(", "U+FF08"}

CloseBrackets == {")", "U+FF09"}

ChoiceLetters == {"A", "B", "C", "D", "E", "a", "b", "c", "d", "e"}

IsDigit(c) == c \in Range(DigitChars)

\* The first position at or after p that holds no digit (Len + 1 when the
\* digits run to the end): where a greedy \d+ started at p stops.
RECURSIVE DigitsEnd(_, _)
DigitsEnd(chars, p) ==
    IF p <= Len(chars) /\ IsDigit(chars[p]) THEN DigitsEnd(chars, p + 1) ELSE p

\* The first position at or after p that holds no white space: where a
\* greedy \s* started at p stops.
RECURSIVE SpacesEnd(_, _)
SpacesEnd(chars, p) ==
    IF p <= Len(chars) /\ IsSpace(chars[p]) THEN SpacesEnd(chars, p + 1) ELSE p

\* Line 769: [\(（]([A-Ea-e])[\)）] matches at p.  Line 777: (\d+)[\.\)]
\* matches at p.
IsChoiceMarker(chars, p, pattern) ==
    IF pattern = "lettered"
    THEN /\ p >= 1 /\ p + 2 <= Len(chars)
         /\ chars[p] \in OpenBrackets
         /\ chars[p + 1] \in ChoiceLetters
         /\ chars[p + 2] \in CloseBrackets
    ELSE /\ p >= 1 /\ p <= Len(chars)
         /\ IsDigit(chars[p])
         /\ DigitsEnd(chars, p) <= Len(chars)
         /\ chars[DigitsEnd(chars, p)] \in {".", ")"}

\* The position after the marker that matches at p.
MarkerEnd(chars, p, pattern) ==
    IF pattern = "lettered" THEN p + 3 ELSE DigitsEnd(chars, p) + 1

\* $ without re.MULTILINE: after the last character, or before a newline
\* that is the last character.
AtEnd(chars, e) ==
    \/ e = Len(chars)
    \/ e = Len(chars) - 1 /\ chars[Len(chars)] = "\n"

\* The lazy (.+?) started at s ends at the first e >= s after which the
\* look-ahead holds: the next marker, or $.
LazyEnd(chars, s, pattern) ==
    LET stops == {e \in s..Len(chars) :
                     AtEnd(chars, e) \/ IsChoiceMarker(chars, e + 1, pattern)}
    IN  CHOOSE e \in stops : \A d \in stops : e <= d

\* The pattern matches from the marker at p exactly when a character
\* follows the marker; \s* gives back one white space when it ran to the
\* end of the text.
ChoiceMatches(chars, p, pattern) ==
    IsChoiceMarker(chars, p, pattern) /\ MarkerEnd(chars, p, pattern) <= Len(chars)

ChoiceStart(chars, p, pattern) ==
    LET s == SpacesEnd(chars, MarkerEnd(chars, p, pattern))
    IN  IF s <= Len(chars) THEN s ELSE Len(chars)

\* re.findall(choice_pattern, text, re.DOTALL) from position p on: the
\* second group of each match, left to right, without overlap.
RECURSIVE FindChoices(_, _, _)
FindChoices(chars, p, pattern) ==
    LET starts == {q \in p..Len(chars) : ChoiceMatches(chars, q, pattern)}
    IN  IF starts = {} THEN <<>>
        ELSE LET q == CHOOSE q \in starts : \A r \in starts : q <= r
                 s == ChoiceStart(chars, q, pattern)
                 e == LazyEnd(chars, s, pattern)
             IN  <<SubSeq(chars, s, e)>> \o FindChoices(chars, e + 1, pattern)

\* str.strip().
StripSpace(s) ==
    LET other == {k \in 1..Len(s) : ~IsSpace(s[k])}
    IN  IF other = {} THEN <<>>
        ELSE SubSeq(s, CHOOSE k \in other : \A j \in other : k <= j,
                       CHOOSE k \in other : \A j \in other : k >= j)

Stripped(matches) == [k \in 1..Len(matches) |-> StripSpace(matches[k])]

\* Lines 764-783.
ExtractAnswerChoices(chars) ==
    LET matches == FindChoices(chars, 1, "lettered")
    IN  IF matches # <<>> THEN Stripped(matches)
        ELSE Stripped(FindChoices(chars, 1, "numeric"))

\* Texts: up to MaxTokens pieces, each a marker, a word or white space, and
\* the text "(A) one (B) two (C) three".
MaxTokens == 4

ChoiceTokens ==
    {<<"(", "A", ")">>, <<"(", "b", ")">>, <<"U+FF08", "C", "U+FF09">>,
     <<"1", ")">>, <<"2", ".">>, <<" ">>, <<"\n">>, <<"o", "n", "e">>}

RECURSIVE ConcatTokens(_, _)
ConcatTokens(tokens, n) ==
    IF n = 0 THEN <<>> ELSE ConcatTokens(tokens, n - 1) \o tokens[n]

T_ONE_TWO_THREE ==
    <<"(", "A", ")", " ", "o", "n", "e", " ", "(", "B", ")", " ", "t", "w", "o",
      " ", "(", "C", ")", " ", "t", "h", "r", "e", "e">>

ChoiceTexts ==
    {T_ONE_TWO_THREE} \cup
    UNION {{ConcatTokens(tokens, n) : tokens \in [1..n -> ChoiceTokens]} : n \in 0..MaxTokens}

ChoicesInit ==
    /\ page = <<>>
    /\ questions_by_category = <<>>
    /\ hpc = "idle"
    /\ div_idx = 0
    /\ passes = <<>>
    /\ pass = "ol"
    /\ i = 0
    /\ cur = NoContext
    /\ last = NoElement
    /\ closed = <<>>
    /\ pc = "idle"
    /\ args = [main_category |-> None, subcategory |-> None]
    /\ bucket_idx = 0
    /\ link_idx = 0
    /\ saved_questions = <<>>
    /\ total_questions = 0
    /\ processed_any = FALSE
    /\ printed = {}
    /\ saved = <<>>
    /\ files = {}
    /\ attempted = <<>>
    /\ f = NoFetch
    /\ outstanding = 0
    /\ idle = -1
    /\ seed = NotAString
    /\ sanitized = <<>>
    /\ resanitized = <<>>
    /\ spc = "choices"
    /\ filepath = NoPath
    /\ counter = 0
    /\ question_text \in ChoiceTexts
    /\ answer_choices = <<>>
    /\ detected_type = ""
    /\ dirs = {}
    /\ deleted_count = 0

\* Lines 724-725: answer_choices = self._extract_answer_choices(first_post),
\* the text of the post being question_text here.
ExtractChoices ==
    /\ spc = "choices"
    /\ answer_choices' = ExtractAnswerChoices(question_text)
    /\ spc' = "extracted"
    /\ UNCHANGED <<page, questions_by_category, hvars, pvars, seed, sanitized,
                   resanitized, filepath, counter, question_text, detected_type, dirs,
                   deleted_count>>

ChoicesNext == ExtractChoices

SpecChoices == ChoicesInit /\ [][ChoicesNext]_vars

(***************************************************************************)
(* Claims about _extract_answer_choices, under SpecChoices.                *)
(***************************************************************************)
\* Where the lettered markers of a text stand.
LetteredMarkers(chars) == {p \in 1..Len(chars) : IsChoiceMarker(chars, p, "lettered")}

\* The text of the lettered choice whose marker stands at p: what follows the
\* marker up to the next lettered marker or the end of the text, trimmed.
LetteredText(chars, p) ==
    LET later == {q \in LetteredMarkers(chars) : q > p}
        stop  == IF later = {} THEN Len(chars) + 1
                 ELSE CHOOSE q \in later : \A r \in later : q <= r
    IN  StripSpace(SubSeq(chars, p + 3, stop - 1))

\* The lettered choices' texts, in order of occurrence.
LetteredTexts(chars) ==
    LET marks == LetteredMarkers(chars)
        at(k) == CHOOSE p \in marks : Cardinality({q \in marks : q <= p}) = k
    IN  [k \in 1..Cardinality(marks) |-> LetteredText(chars, at(k))]

\* C21: when the text has at least one lettered choice, the extracted answer
\* choices are exactly the lettered choices' texts, trimmed, in order of
\* occurrence; numeric markers inside them make no entry of their own.
C21_LetteredChoicesInOrder ==
    (spc = "extracted" /\ LetteredMarkers(question_text) # {}) =>
        answer_choices = LetteredTexts(question_text)

(***************************************************************************)
(* cleanup_old_questions on its own (lines 111-186).                       *)
(***************************************************************************)
Q_A == <<"a">>

NOTES == <<"n", "o", "t", "e", "s">>

RemnantFolder == <<"Quantitative Section", "Problem Solving (PS)">>

\* The files an output directory may hold before the cleanup.
CleanupFiles ==
    { File(<<"Verbal Section", "Text Completion">>, Q_A, OldContent),
      File(<<"Verbal Section", "Text Completion">>, NOTES, NotJson),
      File(<<"Verbal Section", "Sentence Equivalence">>, Q_A, OldContent),
      File(<<"Verbal Section", "Notes">>, Q_A, OldContent),
      File(<<"Quantitative Section", "Arithmetic", "Problem Solving (PS)">>, Q_A, OldContent),
      File(<<"Quantitative Section", "Percents">>, INDEX, OldContent),
      File(RemnantFolder, Q_A, OldContent),
      File(RemnantFolder, NOTES, NotJson) }

\* The folders of these files and the folders above them.
CleanupFolders ==
    UNION {{SubSeq(file.folder, 1, n) : n \in 1..Len(file.folder)} : file \in CleanupFiles}

CleanupTargets ==
    { [main_category |-> None, subcategory |-> None],
      [main_category |-> "Quantitative Section", subcategory |-> None],
      [main_category |-> "Quantitative Section", subcategory |-> "Arithmetic"],
      [main_category |-> "Verbal Section", subcategory |-> None],
      [main_category |-> "Verbal Section", subcategory |-> "Text Completion"],
      [main_category |-> "Math Diagnostic Test", subcategory |-> None] }

CleanupInit ==
    /\ page = <<>>
    /\ questions_by_category = <<>>
    /\ hpc = "idle"
    /\ div_idx = 0
    /\ passes = <<>>
    /\ pass = "ol"
    /\ i = 0
    /\ cur = NoContext
    /\ last = NoElement
    /\ closed = <<>>
    /\ pc = "idle"
    /\ args \in CleanupTargets
    /\ bucket_idx = 0
    /\ link_idx = 0
    /\ saved_questions = <<>>
    /\ total_questions = 0
    /\ processed_any = FALSE
    /\ printed = {}
    /\ saved = <<>>
    /\ files \in SUBSET CleanupFiles
    /\ attempted = <<>>
    /\ f = NoFetch
    /\ outstanding = 0
    /\ idle = -1
    /\ seed = NotAString
    /\ sanitized = <<>>
    /\ resanitized = <<>>
    /\ spc = "cleanup"
    /\ filepath = NoPath
    /\ counter = 0
    /\ question_text = <<>>
    /\ answer_choices = <<>>
    /\ detected_type = ""
    /\ dirs \in {CleanupFolders, CleanupFolders \cup {Append(RemnantFolder, "Old")}}
    /\ deleted_count = 0

\* Lines 111-186: cleanup_old_questions(args.main_category, args.subcategory);
\* an unlink may fail, which prints a warning and leaves the file.
CleanupOldQuestions ==
    /\ spc = "cleanup"
    /\ \E undeleted \in SUBSET (files \ cleanup_old_questions(files, args)) :
        /\ Cardinality(undeleted) <= 1
        /\ files' = cleanup_old_questions(files, args) \cup undeleted
        /\ dirs' = cleanup_directories(files', dirs, args)
        /\ deleted_count' = Cardinality(files \ files')
        /\ printed' = {"Cleaning up old question files...", "Deleted old question files."}
                      \cup (IF RemnantFolders(args) \cap dirs # {}
                            THEN {"Removing remnant folder"} ELSE {})
                      \cup (IF undeleted # {} THEN {"Warning: Could not delete"} ELSE {})
    /\ spc' = "cleaned"
    /\ UNCHANGED <<page, questions_by_category, hvars, pc, args, bucket_idx, link_idx,
                   saved_questions, total_questions, processed_any, saved, attempted,
                   f, outstanding, idle, seed, sanitized, resanitized, filepath,
                   counter, question_text, answer_choices, detected_type>>

CleanupNext == CleanupOldQuestions

SpecCleanup == CleanupInit /\ [][CleanupNext]_vars

(***************************************************************************)
(* Claims about cleanup_old_questions, under SpecCleanup.                  *)
(***************************************************************************)
\* The folder lies in the folder of a taxonomy category that the target
\* names: every category when no target is given.
InTargetedCategory(folder, target) ==
    /\ Len(folder) >= 2
    /\ folder[1] \in MainCategories
    /\ folder[2] \in folder_structure(folder[1])
    /\ target.main_category # None => folder[1] = target.main_category
    /\ target.subcategory # None => folder[2] = target.subcategory

\* The folder is 'Quantitative Section/<question type>' and the target is
\* absent or names 'Quantitative Section', with any subcategory.
IsTargetedRemnant(folder, target) ==
    /\ Len(folder) = 2
    /\ folder[1] = "Quantitative Section"
    /\ folder[2] \in quant_question_types
    /\ target.main_category # None => target.main_category = "Quantitative Section"

ArgSets ==
    { [main_category |-> None, subcategory |-> None],
      [main_category |-> "Quantitative Section", subcategory |-> None],
      [main_category |-> "Math Diagnostic Test",
       subcategory |-> "Quantitative Comparison (QCQ)"],
      [main_category |-> "Verbal Section", subcategory |-> None],
      [main_category |-> None, subcategory |-> "Arithmetic"] }

\* The main pages of the model: no 'item text' div, a div without a header,
\* one diagnostic div, a diagnostic div with two question types, and a topic
\* div followed by a diagnostic div.
MainPages ==
    { <<>>,
      <<Div(FALSE, {}, {"math diagnostic test", "math diagnostic", "diagnostic"},
            Flatten(<<<<Marker(T_QCQ)>>, <<Anchor(T_Q1, H_Q1)>>,
                      <<Marker(T_PS)>>, <<Anchor(T_Q2, H_Q2)>>>>))>>,
      <<Div(FALSE, {}, {}, Flatten(<<<<Anchor(T_Q1, H_Q1)>>>>))>>,
      <<Div(FALSE, {}, {"math diagnostic test", "math diagnostic", "diagnostic"},
            Flatten(<<<<Marker(T_QCQ)>>, <<Anchor(T_Q1, H_Q1)>>>>))>>,
      <<Div(TRUE, {"GRE Arithmetic"}, {"gre arithmetic", "arithmetic"},
            Flatten(<<Ol(<<Anchor(T_Q1, H_Q1), Anchor(T_Q2, H_Q2)>>)>>)),
        Div(FALSE, {}, {"math diagnostic test", "math diagnostic", "diagnostic"},
            Flatten(<<<<Marker(T_QCQ)>>, <<Anchor(T_Q1, H_Q1)>>>>))>> }

\* What extract_question_content makes of a fetched page: the question text
\* (empty when the page holds none) and the detected question type.
QuestionData(question, question_type) ==
    [question |-> question, question_type |-> question_type]

Q_QCQ == <<"Q", "u", "a", "n", "t", "i", "t", "y", " ", "A", " ", "Q", "u", "a", "n", "t", "i", "t", "y", " ", "B">>

Q_INDEX == <<"I", "n", "d", "e", "x">>

\* Line 712: len(text) > 200, and the first 100 characters looked at.
SubstantialLength == 200

BoilerplateWindow == 100

\* Lines 744 and 746: [:2000].
FallbackLength == 2000

P_FORUM == <<"f", "o", "r", "u", "m">>

P_NAVIGATION == <<"n", "a", "v", "i", "g", "a", "t", "i", "o", "n">>

\* A fetched question page: the div that holds the post ('item text' for
\* strategy 1, 'postbody' for strategy 2, 'itemprop' for strategy 3, 'div'
\* for a div of the first post wrapper without such a class or attribute),
\* the text of that div, and the text of a spoiler inside it.
QuestionPage(holder, content, spoiler) ==
    [holder |-> holder, content |-> content, spoiler |-> spoiler]

\* Line 759: re.sub(r'\n{3,}', '\n\n', text).
CollapseNewlines(chars) ==
    LET marked == [k \in 1..Len(chars) |->
                      IF /\ k >= 3 /\ chars[k] = "\n"
                         /\ chars[k - 1] = "\n" /\ chars[k - 2] = "\n"
                      THEN "" ELSE chars[k]]
    IN  SelectSeq(marked, LAMBDA c : c # "")

\* Lines 751-762: the text of the element without its spoilers.
ExtractQuestionText(qp) == StripSpace(CollapseNewlines(StripSpace(qp.content)))

\* Lines 686-716: the four strategies find the first post, or nothing.
HasFirstPost(qp) ==
    \/ qp.holder \in {"item text", "postbody", "itemprop"}
    \/ /\ qp.holder = "div"
       /\ LET chars == StripSpace(qp.content \o qp.spoiler)
              start == LowerStr(Truncate(chars, BoilerplateWindow))
          IN  /\ Len(chars) > SubstantialLength
              /\ ~Contains(start, P_FORUM)
              /\ ~Contains(start, P_NAVIGATION)

\* Lines 673-749: extract_question_content on a fetched page.
ExtractQuestionContent(qp) ==
    IF HasFirstPost(qp)
    THEN LET first_post_text == ExtractQuestionText(qp)
             choices == ExtractAnswerChoices(qp.content \o qp.spoiler)
         IN  QuestionData(first_post_text, DetermineQuestionType(first_post_text, choices))
    ELSE QuestionData(Truncate(StripSpace(qp.content \o qp.spoiler), FallbackLength), "")

\* 201 characters, and 201 characters that start with 'forum'.
LongContent == [k \in 1..(SubstantialLength + 1) |-> "a"]

ForumContent == P_FORUM \o [k \in 1..(SubstantialLength - 4) |-> "a"]

\* The question pages of the model.
QuestionPages ==
    { QuestionPage("item text", <<>>, <<>>),
      QuestionPage("item text", Q_QCQ, <<>>),
      QuestionPage("item text", Q_SUM, <<>>),
      QuestionPage("item text", Q_INDEX, <<"(", "A", ")", "x">>),
      QuestionPage("div", Q_SUM, <<>>),
      QuestionPage("div", LongContent, <<>>),
      QuestionPage("div", ForumContent, <<>>) }

PageContents == {ExtractQuestionContent(qp) : qp \in QuestionPages}

\* Line 1032: question_data['question'][:100].
PreviewLength == 100

\* What an earlier run left in the output directory.
InitialDirs ==
    { {},
      { File(<<"Quantitative Section", "Arithmetic", "Problem Solving (PS)">>,
             sanitize_filename(Str(Q_SUM)), OldContent),
        File(<<"Quantitative Section", "Arithmetic", "Problem Solving (PS)">>,
             INDEX, OldContent),
        File(<<"Verbal Section", "Text Completion">>, INDEX, OldContent) } }

\* Lines 998-1009 and 1045-1056: the folder of a question type.
QuestionTypeFolder(question_type) ==
    IF question_type \in {"Quantitative Comparison (QCQ)", "QCQ"}
    THEN "Quantitative Comparison (QCQ)"
    ELSE IF question_type \in {"Multiple Answer Choices (MAC)", "MAC"}
    THEN "Multiple Answer Choices (MAC)"
    ELSE IF question_type \in {"Numeric Entry (NE)", "NE"}
    THEN "Numeric Entry (NE)"
    ELSE IF question_type \in {"Data Interpretation (DI)", "DI"}
    THEN "Data Interpretation (DI)"
    ELSE "Problem Solving (PS)"

\* Lines 994-1015: the folder a question is saved in.
CategoryPath(main_cat, subcat, detected_question_type) ==
    IF main_cat = "Quantitative Section"
    THEN <<main_cat, subcat,
           QuestionTypeFolder(StrOr(detected_question_type, "Problem Solving (PS)"))>>
    ELSE <<main_cat, subcat>>

\* A selection that looks at --main-category only.
SelectedByMainOnly(bucket) ==
    args.main_category # None => bucket.main = args.main_category

\* Lines 976-981: the selection of --main-category and --subcategory.
Selected(bucket) ==
    /\ args.main_category # None => bucket.main = args.main_category
    /\ args.subcategory # None => bucket.sub = args.subcategory

Init ==
    /\ page \in MainPages
    /\ questions_by_category = <<>>
    /\ hpc = "idle"
    /\ div_idx = 0
    /\ passes = <<>>
    /\ pass = "ol"
    /\ i = 0
    /\ cur = NoContext
    /\ last = NoElement
    /\ closed = <<>>
    /\ pc = "args"
    /\ args \in ArgSets
    /\ bucket_idx = 0
    /\ link_idx = 0
    /\ saved_questions = <<>>
    /\ total_questions = 0
    /\ processed_any = FALSE
    /\ printed = {}
    /\ saved = <<>>
    /\ files \in InitialDirs
    /\ attempted = <<>>
    /\ f = NoFetch
    /\ outstanding = 0
    /\ idle = -1
    /\ FunctionsIdle

\* Lines 949-950: parser.error ends the program.
ArgsError ==
    /\ pc = "args"
    /\ args.subcategory # None /\ args.main_category = None
    /\ printed' = printed \cup {"--subcategory requires --main-category to be specified"}
    /\ pc' = "exit"
    /\ UNCHANGED <<fvars, page, questions_by_category, hvars, args, bucket_idx, link_idx,
                   saved_questions, total_questions, processed_any, saved,
                   files, attempted, f, outstanding, idle>>

\* Lines 952-966: cleanup_old_questions on the output directory,
\* then parse_main_page_from_url calls fetch_page(main_url) (line 219).
StartRun ==
    /\ pc = "args"
    /\ ~(args.subcategory # None /\ args.main_category = None)
    /\ printed' = printed
                  \cup (IF args.main_category # None
                        THEN {"Targeting extraction"} ELSE {})
    /\ files' = cleanup_old_questions(files, args)
    /\ deleted_count' = Cardinality(files \ files')
    /\ pc' = "parse"
    /\ f' = Call(base_url)
    /\ UNCHANGED <<seed, sanitized, resanitized, spc, filepath, counter, question_text,
                   answer_choices, detected_type, dirs, page, questions_by_category,
                   hvars, args, bucket_idx, link_idx, saved_questions, total_questions,
                   processed_any, saved, attempted, outstanding, idle>>

\* A main page that could not be fetched and ends the run without a word.
MainPageFailedSilently ==
    /\ pc = "parse"
    /\ f.state = "returned"
    /\ f.result = None
    /\ pc' = "done"
    /\ f' = NoFetch
    /\ UNCHANGED <<fvars, page, questions_by_category, hvars, args, bucket_idx, link_idx,
                   saved_questions, total_questions, processed_any, printed, saved,
                   files, attempted, outstanding, idle>>

\* Lines 220-222 and 968-970: the main page could not be fetched.
MainPageFailed ==
    /\ pc = "parse"
    /\ f.state = "returned"
    /\ f.result = None
    /\ printed' = printed \cup {"ERROR: Could not fetch the main page!",
                                "ERROR: No questions found! Exiting."}
    /\ pc' = "done"
    /\ f' = NoFetch
    /\ UNCHANGED <<fvars, page, questions_by_category, hvars, args, bucket_idx, link_idx,
                   saved_questions, total_questions, processed_any, saved,
                   files, attempted, outstanding, idle>>

\* Lines 224-394 and 968-970: the page holds no 'item text' div, or its divs
\* give no bucket.
MainPageEmpty ==
    /\ pc = "parse"
    /\ f.state = "returned"
    /\ f.result = "response"
    /\ ParseMainPage(page) = <<>>
    /\ printed' = printed
                  \cup (IF page = <<>>
                        THEN {"ERROR: Could not find any 'item text' divs!"} ELSE {})
                  \cup {"ERROR: No questions found! Exiting."}
    /\ pc' = "done"
    /\ f' = NoFetch
    /\ UNCHANGED <<fvars, page, questions_by_category, hvars, args, bucket_idx, link_idx,
                   saved_questions, total_questions, processed_any, saved,
                   files, attempted, outstanding, idle>>

\* Lines 224-394 and 966-973: the buckets of the main page.
MainPageParsed ==
    /\ pc = "parse"
    /\ f.state = "returned"
    /\ f.result = "response"
    /\ ParseMainPage(page) # <<>>
    /\ questions_by_category' = ParseMainPage(page)
    /\ total_questions' = 0
    /\ processed_any' = FALSE
    /\ bucket_idx' = 1
    /\ pc' = "bucket"
    /\ f' = NoFetch
    /\ UNCHANGED <<fvars, page, hvars, args, link_idx, saved_questions, printed, saved,
                   files, attempted, outstanding, idle>>


bucket == questions_by_category[bucket_idx]

\* Lines 976-981: a bucket outside the selection is passed over.
SkipBucket ==
    /\ pc = "bucket"
    /\ bucket_idx <= Len(questions_by_category)
    /\ ~Selected(bucket)
    /\ bucket_idx' = bucket_idx + 1
    /\ UNCHANGED <<fvars, page, questions_by_category, hvars, pc, args, link_idx,
                   saved_questions, total_questions, processed_any, printed, saved,
                   files, attempted, f, outstanding, idle>>

\* Lines 983-986.
StartBucket ==
    /\ pc = "bucket"
    /\ bucket_idx <= Len(questions_by_category)
    /\ Selected(bucket)
    /\ processed_any' = TRUE
    /\ saved_questions' = <<>>
    /\ printed' = printed \cup {"Processing"}
    /\ link_idx' = 1
    /\ pc' = "link"
    /\ UNCHANGED <<fvars, page, questions_by_category, hvars, args, bucket_idx,
                   total_questions, saved, files, attempted, f, outstanding,
                   idle>>

\* The outcome of the last call of extract_question_content is written down.
Outcome(log, outcome) == [log EXCEPT ![Len(log)].outcome = outcome]

\* Lines 988-991 and 668-669: extract_question_content(q_link['url']) calls
\* fetch_page on the normalised URL.
ExtractCall ==
    /\ pc = "link"
    /\ link_idx <= Len(bucket.links)
    /\ attempted' = Append(attempted,
                           [main |-> bucket.main, sub |-> bucket.sub,
                            url |-> bucket.links[link_idx].url, outcome |-> "pending"])
    /\ f' = Call(NormalizeUrl(bucket.links[link_idx].url))
    /\ pc' = "extract"
    /\ UNCHANGED <<fvars, page, questions_by_category, hvars, args, bucket_idx, link_idx,
                   saved_questions, total_questions, processed_any, printed, saved,
                   files, outstanding, idle>>

\* A failed fetch that ends the run instead of the iteration.
ExtractFailedAborts ==
    /\ pc = "extract"
    /\ f.state = "returned"
    /\ f.result = None
    /\ printed' = printed \cup {"Failed to extract question content"}
    /\ attempted' = Outcome(attempted, "fetch_failed")
    /\ pc' = "done"
    /\ f' = NoFetch
    /\ UNCHANGED <<fvars, page, questions_by_category, hvars, args, bucket_idx, link_idx,
                   saved_questions, total_questions, processed_any, saved,
                   files, outstanding, idle>>

\* Lines 670-671, 992 and 1037-1038: fetch_page returned None.
ExtractFailed ==
    /\ pc = "extract"
    /\ f.state = "returned"
    /\ f.result = None
    /\ printed' = printed \cup {"Failed to extract question content"}
    /\ attempted' = Outcome(attempted, "fetch_failed")
    /\ link_idx' = link_idx + 1
    /\ pc' = "link"
    /\ f' = NoFetch
    /\ UNCHANGED <<fvars, page, questions_by_category, hvars, args, bucket_idx,
                   saved_questions, total_questions, processed_any, saved,
                   files, outstanding, idle>>

\* Lines 673-749, 992 and 1037-1038: the page was fetched and holds no
\* question text.
ExtractEmpty ==
    /\ pc = "extract"
    /\ f.state = "returned"
    /\ f.result = "response"
    /\ \E question_data \in PageContents : question_data.question = <<>>
    /\ printed' = printed \cup {"Failed to extract question content"}
    /\ attempted' = Outcome(attempted, "empty")
    /\ link_idx' = link_idx + 1
    /\ pc' = "link"
    /\ f' = NoFetch
    /\ UNCHANGED <<fvars, page, questions_by_category, hvars, args, bucket_idx,
                   saved_questions, total_questions, processed_any, saved,
                   files, outstanding, idle>>

\* Lines 992-1036: the question is saved, summarised, and time.sleep(1).
SaveQuestion ==
    /\ pc = "extract"
    /\ f.state = "returned"
    /\ f.result = "response"
    /\ \E question_data \in PageContents :
        LET category_path == CategoryPath(bucket.main, bucket.sub,
                                          question_data.question_type)
            filename_base == question_data.question
            name == FreeName(files, category_path,
                             sanitize_filename(Str(filename_base)), 0)
        IN  /\ question_data.question # <<>>
            /\ files' = WriteFile(files, category_path, name,
                                  QuestionRecord(question_data.question, f.url))
            /\ saved' = Append(saved,
                   [category_path |-> category_path,
                    filename_base |-> filename_base,
                    filename |-> name,
                    question |-> question_data.question,
                    source_url |-> f.url,
                    main_category |-> bucket.main,
                    attempt |-> Len(attempted)])
            /\ saved_questions' = Append(saved_questions,
                   [filename |-> name,
                    url |-> bucket.links[link_idx].url,
                    question_preview |-> Truncate(question_data.question,
                                                  PreviewLength),
                    question_type |-> question_data.question_type])
    /\ total_questions' = total_questions + 1
    /\ idle' = idle + InterRequestDelay
    /\ attempted' = Outcome(attempted, "saved")
    /\ link_idx' = link_idx + 1
    /\ pc' = "link"
    /\ f' = NoFetch
    /\ UNCHANGED <<fvars, page, questions_by_category, hvars, args, bucket_idx,
                   processed_any, printed, outstanding>>

\* Lines 1041-1044: the summaries grouped by detected type, the types in the
\* order they first appear.
RECURSIVE TypesInOrder(_)
TypesInOrder(questions) ==
    IF questions = <<>> THEN <<>>
    ELSE LET rest == TypesInOrder(SubSeq(questions, 1, Len(questions) - 1))
             qt == questions[Len(questions)].question_type
         IN  IF \E k \in 1..Len(rest) : rest[k] = qt THEN rest ELSE Append(rest, qt)

OfType(questions, qt) == SelectSeq(questions, LAMBDA q : q.question_type = qt)

\* Lines 1045-1060: one index per type, in that order.
RECURSIVE CreateTypeIndexes(_, _, _, _)
CreateTypeIndexes(fs, main_cat, subcat, types) ==
    IF types = <<>> THEN fs
    ELSE CreateTypeIndexes(
             create_index(fs, <<main_cat, subcat, QuestionTypeFolder(Head(types))>>,
                          OfType(saved_questions, Head(types))),
             main_cat, subcat, Tail(types))

\* Lines 1040-1064: the links of the bucket are done, its indexes are written.
EndBucket ==
    /\ pc = "link"
    /\ link_idx > Len(bucket.links)
    /\ files' =
        IF bucket.main = "Quantitative Section"
        THEN CreateTypeIndexes(files, bucket.main, bucket.sub,
                               TypesInOrder(saved_questions))
        ELSE IF saved_questions # <<>>
        THEN create_index(files, <<bucket.main, bucket.sub>>, saved_questions)
        ELSE files
    /\ bucket_idx' = bucket_idx + 1
    /\ pc' = "bucket"
    /\ UNCHANGED <<fvars, page, questions_by_category, hvars, args, link_idx,
                   saved_questions, total_questions, processed_any, printed, saved,
                   attempted, f, outstanding, idle>>

\* Lines 1066-1069.
Finish ==
    /\ pc = "bucket"
    /\ bucket_idx > Len(questions_by_category)
    /\ printed' = printed
                  \cup {IF ~processed_any
                        THEN "WARNING: No categories matched the provided selection."
                        ELSE "Extraction complete!"}
    /\ pc' = "done"
    /\ UNCHANGED <<fvars, page, questions_by_category, hvars, args, bucket_idx, link_idx,
                   saved_questions, total_questions, processed_any, saved,
                   files, attempted, f, outstanding, idle>>

Next ==
    \/ ArgsError
    \/ StartRun
    \/ FetchGet
    \/ Retry400
    \/ ReturnResponse
    \/ HandleException
    \/ MainPageFailed
    \/ MainPageEmpty
    \/ MainPageParsed
    \/ SkipBucket
    \/ StartBucket
    \/ ExtractCall
    \/ ExtractFailed
    \/ ExtractEmpty
    \/ SaveQuestion
    \/ EndBucket
    \/ Finish

Spec == Init /\ [][Next]_vars


(***************************************************************************)
(* Claims about fetch_page and the loop of main(), under Spec.             *)
(***************************************************************************)
RECURSIVE Sum(_)
Sum(seq) == IF seq = <<>> THEN 0 ELSE Head(seq) + Sum(Tail(seq))

IsPrefix(a, b) == Len(a) <= Len(b) /\ a = SubSeq(b, 1, Len(a))

\* C1: whatever each attempt ends in (transport error, 400, another error
\* status, success), fetch_page sends at most 3 GETs, every round of its
\* loop sends one, and it returns a response without an error status or
\* None; no exception leaves it.
C1_FetchReturnsResponseOrNoneWithinThreeGets ==
    /\ f.gets <= 3
    /\ f.state = "loop" => f.attempt < 3 /\ f.gets = f.attempt
    /\ f.state = "inflight" => f.gets = f.attempt + 1
    /\ f.state = "returned" =>
        \/ f.result = "response" /\ f.last_outcome \notin TransportErrors \cup ErrorStatuses
        \/ f.result = None
    /\ f.result # "raised"
    /\ pc # "crashed"

\* Every attempt failed, the last one with an HTTP error status: None after
\* the third GET.
C1_Witness ==
    /\ f.state = "returned"
    /\ f.gets = 3
    /\ f.result = None
    /\ f.last_outcome \in ErrorStatuses

\* C2: fetch_page makes a further attempt if and only if the previous
\* attempt ended in a transport error or in status 400 and fewer than 3
\* attempts have been made.
C2_RetryOnlyAfterTransportErrorOr400 ==
    /\ (f.state \in {"loop", "inflight"} /\ f.attempt > 0) =>
        f.last_outcome \in TransportErrors \cup {"400"}
    /\ (f.state = "returned" /\ f.last_outcome \in TransportErrors \cup {"400"}) =>
        f.gets = 3

\* C3: the delay before the k-th retry is 2^(k-1): 1 before the second
\* attempt, 2 before the third; there is one delay per retry and none after
\* the final attempt, so one fetch sleeps at most 3 time units.
C3_BackoffDoublesAndNoneAfterFinalAttempt ==
    /\ Len(f.sleeps) = f.attempt
    /\ \A k \in 1..Len(f.sleeps) : f.sleeps[k] = Pow(2, k - 1)
    /\ f.state = "returned" => Len(f.sleeps) = f.gets - 1
    /\ Sum(f.sleeps) <= 3

\* Three failed attempts: the delays were 1 and 2, none after the third.
C3_Witness ==
    /\ f.state = "returned"
    /\ f.result = None
    /\ f.sleeps = <<1, 2>>

\* The links of the selected buckets, in the order main() meets them.
RECURSIVE ExpectedAttempts(_)
ExpectedAttempts(qbc) ==
    IF qbc = <<>> THEN <<>>
    ELSE (IF Selected(Head(qbc))
          THEN [k \in 1..Len(Head(qbc).links) |->
                    <<Head(qbc).main, Head(qbc).sub, Head(qbc).links[k].url>>]
          ELSE <<>>)
         \o ExpectedAttempts(Tail(qbc))

AttemptedLinks ==
    [k \in 1..Len(attempted) |->
        <<attempted[k].main, attempted[k].sub, attempted[k].url>>]

\* C4: a question page whose fetch fails is skipped, nothing is saved for
\* it, and the run goes on: the links attempted so far are always the first
\* links of the selected buckets in bucket order, each once, and at the end
\* of the run they are all of them.
C4_FailedFetchSkipsThatLinkOnly ==
    /\ IsPrefix(AttemptedLinks, ExpectedAttempts(questions_by_category))
    /\ pc = "done" => AttemptedLinks = ExpectedAttempts(questions_by_category)
    /\ \A k \in 1..Len(saved) : attempted[saved[k].attempt].outcome = "saved"
    /\ \A k \in 1..Len(attempted) :
        attempted[k].outcome = "fetch_failed" =>
            \A j \in 1..Len(saved) : saved[j].attempt # k

\* A run that ended after a link whose fetch failed was followed by a link
\* that was saved.
C4_Witness ==
    /\ pc = "done"
    /\ \E k \in 1..(Len(attempted) - 1) :
        /\ attempted[k].outcome = "fetch_failed"
        /\ attempted[k + 1].outcome = "saved"

\* C5: at most one request is outstanding, and a GET that follows a fetched
\* question page is sent after a wait of at least the inter-request delay.
C5_DelayAfterEveryFetchedQuestionPage ==
    /\ outstanding <= 1
    /\ (f.state = "inflight" /\ f.waited # -1) => f.waited >= 1


(***************************************************************************)
(* Claims about the files of a run, under Spec.                            *)
(***************************************************************************)
\* The question files that save_question wrote in this run.
QuestionFiles(fs) == {file \in fs : file.content.kind = "question"}

\* C15: a question file that save_question has written in a run is not
\* overwritten, truncated or deleted by a later step of that run, whatever
\* the question text is, 'index' included.
C15_QuestionFilesNeverOverwritten ==
    [][QuestionFiles(files) \subseteq QuestionFiles(files')]_vars


\* The names of the files the run saved in a folder, in the order of saving.
SavedNames(folder) ==
    LET here == SelectSeq(saved, LAMBDA s : s.category_path = folder)
    IN  [k \in 1..Len(here) |-> here[k].filename]

\* C16: when the run has finished, every folder in which it saved a question
\* file has an index.json of this run whose total_questions is the number
\* of files saved there and whose questions name exactly those files, in
\* the order they were saved.
C16_IndexHoldsRunSummaries ==
    pc = "done" =>
        \A k \in 1..Len(saved) :
            \E file \in files :
                /\ file.folder = saved[k].category_path
                /\ file.name = INDEX
                /\ file.content.kind = "index"
                /\ file.content.total_questions = Len(SavedNames(file.folder))
                /\ [n \in 1..Len(file.content.questions) |->
                        file.content.questions[n].filename] = SavedNames(file.folder)

(***************************************************************************)
(* Claims about the section label of a div, under SpecHarvest.             *)
(***************************************************************************)
\* The six rules of the specification, in its priority order: 1 the styled
\* header, 2 the combined diagnostic marker, 3 a single diagnostic marker,
\* 4 a named section header, 5 a subsection keyword, 6 the fallback marker.
Rules == 1..6

HasSectionKey(found) == \E k \in 1..Len(SectionKeys) : SectionKeys[k] \in found

HasLowerSectionKey(t) == \E k \in 1..Len(SectionKeys) : Lower(SectionKeys[k]) \in t

HasQuantSubsection(t) == \E k \in 1..Len(quant_subsections) : quant_subsections[k] \in t

FirstSectionKey(found) ==
    SectionKeys[CHOOSE k \in 1..Len(SectionKeys) :
        /\ SectionKeys[k] \in found
        /\ \A j \in 1..(k - 1) : SectionKeys[j] \notin found]

FirstLowerSectionKey(t) ==
    SectionKeys[CHOOSE k \in 1..Len(SectionKeys) :
        /\ Lower(SectionKeys[k]) \in t
        /\ \A j \in 1..(k - 1) : Lower(SectionKeys[j]) \notin t]

RuleMatches(r, div) ==
    LET t == div.text
    IN  CASE r = 1 -> /\ div.span
                      /\ \/ {"math diagnostic test", "verbal diagnostic test"}
                                \subseteq div.span_text
                         \/ HasSectionKey(div.span_text)
          [] r = 2 -> \/ {"math diagnostic test", "verbal diagnostic test"} \subseteq t
                      \/ "math diagnostic test & verbal diagnostic test" \in t
          [] r = 3 -> {"math diagnostic test", "math diagnostic",
                       "verbal diagnostic test", "verbal diagnostic"} \cap t # {}
          [] r = 4 -> \/ HasLowerSectionKey(t)
                      \/ "the verbal section" \in t
                      \/ "the quant section" \in t
          [] r = 5 -> \/ HasQuantSubsection(t)
                      \/ /\ {"text completion", "sentence equivalence",
                             "reading comprehension"} \cap t # {}
                         /\ "diagnostic" \notin t
                      \/ {"paragraph argument", "passage paragraph"} \cap t # {}
          [] r = 6 -> div.span /\ HasSectionKey(div.span_text)

RuleLabel(r, div) ==
    LET t == div.text
    IN  CASE r = 1 -> IF {"math diagnostic test", "verbal diagnostic test"}
                            \subseteq div.span_text
                      THEN "Math Diagnostic Test & Verbal Diagnostic Test"
                      ELSE FirstSectionKey(div.span_text)
          [] r = 2 -> "Math Diagnostic Test & Verbal Diagnostic Test"
          [] r = 3 -> IF {"math diagnostic test", "math diagnostic"} \cap t # {}
                      THEN "Math Diagnostic Test" ELSE "Verbal Diagnostic Test"
          [] r = 4 -> IF HasLowerSectionKey(t) THEN FirstLowerSectionKey(t)
                      ELSE IF "the verbal section" \in t THEN "The Verbal Section"
                      ELSE "The Quant Section"
          [] r = 5 -> IF HasQuantSubsection(t) THEN "The Quant Section"
                      ELSE "The Verbal Section"
          [] r = 6 -> FirstSectionKey(div.span_text)

Matching(div) == {r \in Rules : RuleMatches(r, div)}

FirstMatchLabel(div) ==
    IF Matching(div) = {} THEN None
    ELSE RuleLabel(CHOOSE r \in Matching(div) : \A q \in Matching(div) : r <= q, div)

MainCategoriesOf(label) ==
    IF label = "Math Diagnostic Test & Verbal Diagnostic Test"
    THEN {"Math Diagnostic Test", "Verbal Diagnostic Test"}
    ELSE IF label \in {"Math Diagnostic Test", "Verbal Diagnostic Test"} THEN {label}
    ELSE IF label = "The Verbal Section" THEN {"Verbal Section"}
    ELSE {"Quantitative Section"}

\* C11: the section label of a div is the label of the first rule, in the
\* priority order, that matches it (none when no rule matches); a div is
\* scanned only when a rule matches, and under the main category of that
\* first rule's label.
C11_LabelIsFirstMatchingRule ==
    /\ \A d \in 1..Len(page) :
        SectionHeader(page[d]).header = FirstMatchLabel(page[d])
    /\ hpc = "scan" =>
        /\ Matching(page[div_idx]) # {}
        /\ Head(passes).main_category
              \in MainCategoriesOf(FirstMatchLabel(page[div_idx]))

\* A div is being scanned that two rules match with different labels.
C11_Witness ==
    /\ hpc = "scan"
    /\ \E r1, r2 \in Matching(page[div_idx]) :
        /\ r1 < r2
        /\ RuleLabel(r1, page[div_idx]) # RuleLabel(r2, page[div_idx])


\* folder_structure (lines 52-100).
\* C12: every (main category, subcategory) label that holds Link Records is
\* a member of folder_structure, and no subcategory name is listed under two
\* main categories.
C12_StoredLabelsInTaxonomy ==
    /\ \A b \in Buckets :
        /\ questions_by_category[b].main \in MainCategories
        /\ questions_by_category[b].sub
              \in folder_structure(questions_by_category[b].main)
    /\ \A m1, m2 \in MainCategories :
        m1 # m2 => folder_structure(m1) \cap folder_structure(m2) = {}


(***************************************************************************)
(* Claims about the order of the Link Records of a bucket, under           *)
(* SpecHarvest.                                                            *)
(***************************************************************************)
\* The places <<div, element>> of the page where a link resolves to url.
LinkPositions(url) ==
    {pos \in UNION {{<<d, k>> : k \in 1..Len(page[d].elements)} : d \in 1..Len(page)} :
        /\ IsLink(page[pos[1]].elements[pos[2]])
        /\ ResolveHref(page[pos[1]].elements[pos[2]].href) = url}

\* Every stored URL is the URL of exactly one link of the page.
EachStoredUrlOccursOnce == \A url \in AllStoredUrls : Cardinality(LinkPositions(url)) = 1

PositionOf(url) == CHOOSE pos \in LinkPositions(url) : TRUE

Earlier(p, q) == p[1] < q[1] \/ (p[1] = q[1] /\ p[2] < q[2])

\* C13: within each bucket the Link Records are in source order, whether
\* their links are inside an <ol> or direct (stated for pages where every
\* stored URL is the URL of one link, so that the link of a record is known).
C13_BucketInSourceOrder ==
    (hpc = "done" /\ EachStoredUrlOccursOnce) =>
        \A b \in Buckets :
            \A j, k \in 1..Len(questions_by_category[b].links) :
                j < k => Earlier(PositionOf(questions_by_category[b].links[j].url),
                                 PositionOf(questions_by_category[b].links[k].url))

(***************************************************************************)
(* Claims about extract_question_content and the loop of main(), under     *)
(* Spec.                                                                   *)
(***************************************************************************)
\* C22: no question whose text is shorter than the minimum content length is
\* saved: extract_question_content gives nothing for such a page, so every
\* saved question record holds more than SubstantialLength characters.
C22_NoShortQuestionSaved ==
    \A k \in 1..Len(saved) : Len(saved[k].question) > SubstantialLength

\* The lines that report a run as failed: lines 221, 231, 969 and 1067.
RunErrors ==
    {"ERROR: Could not fetch the main page!",
     "ERROR: Could not find any 'item text' divs!",
     "ERROR: No questions found! Exiting.",
     "WARNING: No categories matched the provided selection."}

\* C23: a run that ends with zero extracted questions has printed a line
\* that reports the run as failed, whether the main page gave no links or
\* every question page failed.
C23_ZeroQuestionsReportedAsError ==
    (pc = "done" /\ total_questions = 0) => printed \cap RunErrors # {}

\* The main page was not fetched, or it holds no 'item text' div.
ContainerMissing ==
    /\ pc = "parse"
    /\ f.state = "returned"
    /\ f.result = None \/ page = <<>>

ContainerErrors ==
    {"ERROR: Could not fetch the main page!",
     "ERROR: Could not find any 'item text' divs!"}

\* The files that save_question and create_index wrote in this run.
WrittenFiles(fs) == {file \in fs : file.content.kind \in {"question", "index"}}

\* C24: when the main page cannot be fetched or holds no 'item text' div the
\* run ends at once with a printed error, no question page was fetched and no
\* question or index file was written; a question page that cannot be
\* fetched or holds no question only moves the run to the next link.
C24_OnlyMissingContainerAborts ==
    /\ [][ContainerMissing =>
            /\ pc' = "done"
            /\ printed' \cap ContainerErrors # {}
            /\ "ERROR: No questions found! Exiting." \in printed'
            /\ files' = files]_vars
    /\ []((pc = "done" /\ printed \cap ContainerErrors # {}) =>
            /\ attempted = <<>>
            /\ WrittenFiles(files) = {})
    /\ [][(pc = "extract" /\ pc' # "extract"
           /\ attempted'[Len(attempted')].outcome \in {"fetch_failed", "empty"}) =>
            /\ pc' = "link"
            /\ link_idx' = link_idx + 1
            /\ files' = files]_vars

\* The main page could not be fetched: the run is over, with the error
\* printed and nothing attempted.
C24_Witness ==
    /\ pc = "done"
    /\ "ERROR: Could not fetch the main page!" \in printed
    /\ "ERROR: No questions found! Exiting." \in printed
    /\ attempted = <<>>

\* The folder lies under the selected main category and subcategory.
UnderSelection(folder) ==
    /\ args.main_category # None => folder[1] = args.main_category
    /\ args.subcategory # None => folder[2] = args.subcategory

\* C25: with --main-category M and --subcategory S only links of bucket
\* (M, S) are fetched and only files under M/S are written, with M alone
\* only buckets of M; --subcategory without --main-category ends the program
\* with a usage error before any cleanup, fetch or write.
C25_SelectionLimitsExtraction ==
    /\ [](/\ \A k \in 1..Len(attempted) :
                UnderSelection(<<attempted[k].main, attempted[k].sub>>)
          /\ \A file \in WrittenFiles(files) : UnderSelection(file.folder))
    /\ [][(pc = "args" /\ args.subcategory # None /\ args.main_category = None) =>
            /\ pc' = "exit"
            /\ "--subcategory requires --main-category to be specified" \in printed'
            /\ files' = files
            /\ f' = NoFetch
            /\ attempted' = <<>>]_vars
    /\ []((pc = "exit") => (f = NoFetch /\ attempted = <<>> /\ WrittenFiles(files) = {}))

\* A run for ('Math Diagnostic Test', 'Quantitative Comparison (QCQ)') on a
\* page that also has a 'Problem Solving (PS)' bucket of that category: the
\* run is over, one question was saved, the other bucket was not touched.
C25_Witness ==
    /\ pc = "done"
    /\ args.main_category # None /\ args.subcategory # None
    /\ \E k \in 1..Len(questions_by_category) :
        /\ questions_by_category[k].main = args.main_category
        /\ questions_by_category[k].sub # args.subcategory
    /\ Len(saved) = 1
    /\ WrittenFiles(files) # {}

\* The run is over because the main page was not fetched or gave no bucket.
EndedWithoutQuestionList ==
    pc = "done" /\ "ERROR: No questions found! Exiting." \in printed

\* C29: a run that ends because the main page could not be fetched or held
\* no question list has deleted no file of the earlier runs.
C29_AbortedRunKeepsEarlierFiles ==
    EndedWithoutQuestionList => deleted_count = 0

(***************************************************************************)
(* Claims about the categories of the harvest, under SpecHarvest.          *)
(***************************************************************************)
MathTypes ==
    {"Quantitative Comparison (QCQ)", "Problem Solving (PS)",
     "Multiple Answer Choices (MAC)", "Numeric Entry (NE)", "Data Interpretation (DI)"}

VerbalTypes ==
    {"Text Completion (TC)", "Sentence Equivalence (SE)", "Reading Comprehension (RC)"}

\* The page has a div with the combined diagnostic header, and no div with
\* the header of one diagnostic test alone.
OnlyCombinedDiagnostics ==
    /\ \E d \in 1..Len(page) : SectionHeader(page[d]).header = Combined
    /\ \A d \in 1..Len(page) :
        SectionHeader(page[d]).header \notin {"Math Diagnostic Test", "Verbal Diagnostic Test"}

\* The question types of the Link Records stored under a main category, and
\* the subcategories they are stored in.
TypesStoredUnder(main_category) ==
    UNION {{questions_by_category[b].sub}
           \cup {questions_by_category[b].links[k].question_type :
                    k \in 1..Len(questions_by_category[b].links)} :
           b \in {b \in Buckets : questions_by_category[b].main = main_category}}

\* C27: of a div with the combined diagnostic header no link under a TC, SE
\* or RC marker is stored under 'Math Diagnostic Test', and no link under a
\* QCQ, PS, MAC, NE or DI marker under 'Verbal Diagnostic Test'.
C27_CombinedPassesKeepOwnTypes ==
    OnlyCombinedDiagnostics =>
        /\ TypesStoredUnder("Math Diagnostic Test") \cap VerbalTypes = {}
        /\ TypesStoredUnder("Verbal Diagnostic Test") \cap MathTypes = {}

\* C28: for a page of one div whose section header is a key of
\* section_mapping, every Link Record is stored under 'Quantitative Section'
\* and its section subcategory is the folder name section_mapping gives for
\* the key.
C28_SectionSubcategoryIsMappedFolder ==
    (Len(page) = 1 /\ SectionHeader(page[1]).header \in Range(SectionKeys)) =>
        \A b \in Buckets :
            /\ questions_by_category[b].main = "Quantitative Section"
            /\ \A k \in 1..Len(questions_by_category[b].links) :
                questions_by_category[b].links[k].section
                    = section_mapping(SectionHeader(page[1]).header)

\* C30: each normalized URL is stored in at most one (main category,
\* subcategory) bucket (stated for pages where every stored URL is the URL
\* of one link, so that two buckets with one URL hold the same link).
C30_UrlInAtMostOneBucket ==
    EachStoredUrlOccursOnce =>
        \A b1, b2 \in Buckets : b1 # b2 => StoredUrls(b1) \cap StoredUrls(b2) = {}

====
